---- MODULE Spec2Model ----
(***************************************************************************)
(* Prophecy viewer: the translation index builder (bsb_parser.js), the    *)
(* fetch-then-parse flow and the reference resolver (data_fetcher.js).    *)
(*                                                                         *)
(* A JavaScript string is a sequence of one-character strings; a JSON     *)
(* value is a record tagged with its typeof/shape in field t, its content *)
(* in a field named after the type (n, s, a, o).                          *)
(***************************************************************************)
EXTENDS Integers, Sequences, FiniteSets, TLC

\* ------------------------------------------------------------------ JSON
JNull == [t |-> "null"]
JUndefined == [t |-> "undefined"]
JNum(n) == [t |-> "number", n |-> n]
JStr(s) == [t |-> "string", s |-> s]
JArr(a) == [t |-> "array", a |-> a]
JObj(f) == [t |-> "object", o |-> f]

\* o.field of a JSON value that is not null or undefined
Get(o, field) ==
    IF o.t = "object" /\ field \in DOMAIN o.o THEN o.o[field] ELSE JUndefined

\* ------------------------------------------------------------------ strings
DigitChars == <<"0", "1", "2", "3", "4", "5", "6", "7", "8", "9">>
UpperChars == <<"A", "B", "C", "D", "E", "F", "G", "H", "I", "J", "K", "L", "M",
                "N", "O", "P", "Q", "R", "S", "T", "U", "V", "W", "X", "Y", "Z">>
LowerChars == <<"a", "b", "c", "d", "e", "f", "g", "h", "i", "j", "k", "l", "m",
                "n", "o", "p", "q", "r", "s", "t", "u", "v", "w", "x", "y", "z">>
Range(f) == {f[i] : i \in DOMAIN f}
IsDigit(c) == c \in Range(DigitChars)
IsLetter(c) == c \in Range(UpperChars) \cup Range(LowerChars)
\* the characters matched by \s and removed by trim()
IsSpace(c) == c \in {" ", "\t", "\n"}

toLowerCaseChar(c) ==
    IF \E i \in 1..26 : UpperChars[i] = c
    THEN LowerChars[CHOOSE i \in 1..26 : UpperChars[i] = c]
    ELSE c
toLowerCase(s) == [i \in 1..Len(s) |-> toLowerCaseChar(s[i])]

\* s.replace(/\s+/g, '')
stripSpaces(s) == SelectSeq(s, LAMBDA c : ~IsSpace(c))

RECURSIVE trimStart(_)
trimStart(s) == IF s # <<>> /\ IsSpace(Head(s)) THEN trimStart(Tail(s)) ELSE s
RECURSIVE trimEnd(_)
trimEnd(s) ==
    IF s # <<>> /\ IsSpace(s[Len(s)]) THEN trimEnd(SubSeq(s, 1, Len(s) - 1)) ELSE s
trim(s) == trimEnd(trimStart(s))

\* s.indexOf(c), 0-based, -1 when absent
indexOf(s, c) ==
    IF \E i \in 1..Len(s) : s[i] = c
    THEN (CHOOSE i \in 1..Len(s) : s[i] = c /\ \A j \in 1..(i - 1) : s[j] # c) - 1
    ELSE -1

\* s.substring(from, to), 0-based, to exclusive
substring(s, from, to) == SubSeq(s, from + 1, to)

\* numToString padding the number to two digits
numToStringPadded(n) ==
    IF n < 0 THEN <<"-">> ELSE IF n < 10 THEN <<"0", DigitChars[n + 1]>>
    ELSE <<DigitChars[((n \div 10) % 10) + 1], DigitChars[(n % 10) + 1]>>

\* Number.prototype.toString() of an integer
RECURSIVE natToString(_)
natToString(n) ==
    IF n < 10 THEN <<DigitChars[n + 1]>>
    ELSE natToString(n \div 10) \o <<DigitChars[(n % 10) + 1]>>
numToString(n) == IF n < 0 THEN <<"-">> \o natToString(-n) ELSE natToString(n)

\* ------------------------------------------------------------------ bsb_parser.js
\* String(Object): what a property read yields for the key "constructor",
\* which every plain object inherits from Object.prototype
ObjectConstructor == <<"function Object() { [native code] }">>
ConstructorKey == <<"c", "o", "n", "s", "t", "r", "u", "c", "t", "o", "r">>

bookNameMappings ==
    {
       <<<<"p", "s", "a", "l", "m", "s">>,
         <<"p", "s", "a", "l", "m", "s">>>>,
       <<<<"s", "o", "n", "g", "o", "f", "s", "o", "n", "g", "s">>,
         <<"s", "o", "n", "g", "o", "f", "s", "o", "n", "g", "s">>>>,
       <<<<"s", "o", "n", "g", "o", "f", "s", "o", "l", "o", "m", "o", "n">>,
         <<"s", "o", "n", "g", "o", "f", "s", "o", "n", "g", "s">>>>,
       <<<<"r", "e", "v", "e", "l", "a", "t", "i", "o", "n", "o", "f", "j", "o", "h", "n">>,
         <<"r", "e", "v", "e", "l", "a", "t", "i", "o", "n">>>>,
       <<<<"i", "s", "a", "m", "u", "e", "l">>,
         <<"1", "s", "a", "m", "u", "e", "l">>>>,
       <<<<"f", "i", "r", "s", "t", "s", "a", "m", "u", "e", "l">>,
         <<"1", "s", "a", "m", "u", "e", "l">>>>,
       <<<<"i", "i", "s", "a", "m", "u", "e", "l">>,
         <<"2", "s", "a", "m", "u", "e", "l">>>>,
       <<<<"s", "e", "c", "o", "n", "d", "s", "a", "m", "u", "e", "l">>,
         <<"2", "s", "a", "m", "u", "e", "l">>>>,
       <<<<"i", "k", "i", "n", "g", "s">>,
         <<"1", "k", "i", "n", "g", "s">>>>,
       <<<<"f", "i", "r", "s", "t", "k", "i", "n", "g", "s">>,
         <<"1", "k", "i", "n", "g", "s">>>>,
       <<<<"i", "i", "k", "i", "n", "g", "s">>,
         <<"2", "k", "i", "n", "g", "s">>>>,
       <<<<"s", "e", "c", "o", "n", "d", "k", "i", "n", "g", "s">>,
         <<"2", "k", "i", "n", "g", "s">>>>,
       <<<<"i", "c", "h", "r", "o", "n", "i", "c", "l", "e", "s">>,
         <<"1", "c", "h", "r", "o", "n", "i", "c", "l", "e", "s">>>>,
       <<<<"f", "i", "r", "s", "t", "c", "h", "r", "o", "n", "i", "c", "l", "e", "s">>,
         <<"1", "c", "h", "r", "o", "n", "i", "c", "l", "e", "s">>>>,
       <<<<"i", "i", "c", "h", "r", "o", "n", "i", "c", "l", "e", "s">>,
         <<"2", "c", "h", "r", "o", "n", "i", "c", "l", "e", "s">>>>,
       <<<<"s", "e", "c", "o", "n", "d", "c", "h", "r", "o", "n", "i", "c", "l", "e", "s">>,
         <<"2", "c", "h", "r", "o", "n", "i", "c", "l", "e", "s">>>>,
       <<<<"i", "c", "o", "r", "i", "n", "t", "h", "i", "a", "n", "s">>,
         <<"1", "c", "o", "r", "i", "n", "t", "h", "i", "a", "n", "s">>>>,
       <<<<"f", "i", "r", "s", "t", "c", "o", "r", "i", "n", "t", "h", "i", "a", "n", "s">>,
         <<"1", "c", "o", "r", "i", "n", "t", "h", "i", "a", "n", "s">>>>,
       <<<<"i", "i", "c", "o", "r", "i", "n", "t", "h", "i", "a", "n", "s">>,
         <<"2", "c", "o", "r", "i", "n", "t", "h", "i", "a", "n", "s">>>>,
       <<<<"s", "e", "c", "o", "n", "d", "c", "o", "r", "i", "n", "t", "h", "i", "a", "n", "s">>,
         <<"2", "c", "o", "r", "i", "n", "t", "h", "i", "a", "n", "s">>>>,
       <<<<"i", "t", "h", "e", "s", "s", "a", "l", "o", "n", "i", "a", "n", "s">>,
         <<"1", "t", "h", "e", "s", "s", "a", "l", "o", "n", "i", "a", "n", "s">>>>,
       <<<<"f", "i", "r", "s", "t", "t", "h", "e", "s", "s", "a", "l", "o", "n", "i", "a", "n", "s">>,
         <<"1", "t", "h", "e", "s", "s", "a", "l", "o", "n", "i", "a", "n", "s">>>>,
       <<<<"i", "i", "t", "h", "e", "s", "s", "a", "l", "o", "n", "i", "a", "n", "s">>,
         <<"2", "t", "h", "e", "s", "s", "a", "l", "o", "n", "i", "a", "n", "s">>>>,
       <<<<"s", "e", "c", "o", "n", "d", "t", "h", "e", "s", "s", "a", "l", "o", "n", "i", "a", "n", "s">>,
         <<"2", "t", "h", "e", "s", "s", "a", "l", "o", "n", "i", "a", "n", "s">>>>,
       <<<<"i", "t", "i", "m", "o", "t", "h", "y">>,
         <<"1", "t", "i", "m", "o", "t", "h", "y">>>>,
       <<<<"f", "i", "r", "s", "t", "t", "i", "m", "o", "t", "h", "y">>,
         <<"1", "t", "i", "m", "o", "t", "h", "y">>>>,
       <<<<"i", "i", "t", "i", "m", "o", "t", "h", "y">>,
         <<"2", "t", "i", "m", "o", "t", "h", "y">>>>,
       <<<<"s", "e", "c", "o", "n", "d", "t", "i", "m", "o", "t", "h", "y">>,
         <<"2", "t", "i", "m", "o", "t", "h", "y">>>>,
       <<<<"i", "p", "e", "t", "e", "r">>,
         <<"1", "p", "e", "t", "e", "r">>>>,
       <<<<"f", "i", "r", "s", "t", "p", "e", "t", "e", "r">>,
         <<"1", "p", "e", "t", "e", "r">>>>,
       <<<<"i", "i", "p", "e", "t", "e", "r">>,
         <<"2", "p", "e", "t", "e", "r">>>>,
       <<<<"s", "e", "c", "o", "n", "d", "p", "e", "t", "e", "r">>,
         <<"2", "p", "e", "t", "e", "r">>>>,
       <<<<"i", "j", "o", "h", "n">>,
         <<"1", "j", "o", "h", "n">>>>,
       <<<<"f", "i", "r", "s", "t", "j", "o", "h", "n">>,
         <<"1", "j", "o", "h", "n">>>>,
       <<<<"i", "i", "j", "o", "h", "n">>,
         <<"2", "j", "o", "h", "n">>>>,
       <<<<"s", "e", "c", "o", "n", "d", "j", "o", "h", "n">>,
         <<"2", "j", "o", "h", "n">>>>,
       <<<<"i", "i", "i", "j", "o", "h", "n">>,
         <<"3", "j", "o", "h", "n">>>>,
       <<<<"t", "h", "i", "r", "d", "j", "o", "h", "n">>,
         <<"3", "j", "o", "h", "n">>>>
    }

\* bookNameMappings[rawBookKey] || rawBookKey
standardKey(rawBookKey) ==
    IF \E m \in bookNameMappings : m[1] = rawBookKey
    THEN (CHOOSE m \in bookNameMappings : m[1] = rawBookKey)[2]
    ELSE IF rawBookKey = ConstructorKey THEN ObjectConstructor
    ELSE rawBookKey

\* a plain object {} and the assignment obj[k] = v
EmptyObject == <<>>
Put(obj, k, v) == [x \in DOMAIN obj \cup {k} |-> IF x = k THEN v ELSE obj[x]]

\* chapter.verses.forEach(...): the verse mapping of one chapter, or a
\* TypeError when an entry is null (a property read of null)
RECURSIVE indexVerses(_, _)
indexVerses(verses, chapterIndex) ==
    IF verses = <<>> THEN [threw |-> FALSE, obj |-> chapterIndex]
    ELSE LET verse == Head(verses) IN
         IF verse.t \in {"null", "undefined"}
         THEN [threw |-> TRUE, obj |-> chapterIndex]
         ELSE IF Get(verse, "verse").t = "number" /\ Get(verse, "text").t = "string"
         THEN indexVerses(Tail(verses),
                          Put(chapterIndex, numToString(Get(verse, "verse").n),
                              trim(Get(verse, "text").s)))
         ELSE indexVerses(Tail(verses), chapterIndex)

\* indexChapters attaching every chapter of the expected shape, empty or not
RECURSIVE indexChaptersKeepingEmpty(_, _)
indexChaptersKeepingEmpty(chapters, bookIndex) ==
    IF chapters = <<>> THEN [threw |-> FALSE, obj |-> bookIndex]
    ELSE LET chapter == Head(chapters) IN
         IF chapter.t \in {"null", "undefined"}
         THEN [threw |-> TRUE, obj |-> bookIndex]
         ELSE IF Get(chapter, "chapter").t # "number" \/ Get(chapter, "verses").t # "array"
         THEN indexChaptersKeepingEmpty(Tail(chapters), bookIndex)
         ELSE LET chapterNum == numToString(Get(chapter, "chapter").n)
                  r == indexVerses(Get(chapter, "verses").a, EmptyObject)
              IN  IF r.threw THEN [threw |-> TRUE, obj |-> bookIndex]
                  ELSE indexChaptersKeepingEmpty(Tail(chapters),
                                                 Put(bookIndex, chapterNum, r.obj))

\* book.chapters.forEach(...): the chapter mapping of one book
RECURSIVE indexChapters(_, _)
indexChapters(chapters, bookIndex) ==
    IF chapters = <<>> THEN [threw |-> FALSE, obj |-> bookIndex]
    ELSE LET chapter == Head(chapters) IN
         IF chapter.t \in {"null", "undefined"}
         THEN [threw |-> TRUE, obj |-> bookIndex]
         ELSE IF Get(chapter, "chapter").t # "number" \/ Get(chapter, "verses").t # "array"
         THEN indexChapters(Tail(chapters), bookIndex)
         ELSE LET chapterNum == numToString(Get(chapter, "chapter").n)
                  r == indexVerses(Get(chapter, "verses").a, EmptyObject)
              IN  IF r.threw THEN [threw |-> TRUE, obj |-> bookIndex]
                  ELSE IF DOMAIN r.obj # {}
                  THEN indexChapters(Tail(chapters), Put(bookIndex, chapterNum, r.obj))
                  ELSE indexChapters(Tail(chapters), bookIndex)

\* the key a book is stored under: lower-cased, whitespace removed, then
\* standardized through the mapping table
finalBookKey(name) == standardKey(stripSpaces(toLowerCase(name)))

\* indexBooks adding the chapters of a book to those its key already has
RECURSIVE indexBooksMerging(_, _)
indexBooksMerging(books, indexedBsb) ==
    IF books = <<>> THEN [threw |-> FALSE, obj |-> indexedBsb]
    ELSE LET book == Head(books) IN
         IF book.t \in {"null", "undefined"} \/ Get(book, "name").t # "string"
         THEN indexBooksMerging(Tail(books), indexedBsb)
         ELSE IF Get(book, "chapters").t # "array"
         THEN indexBooksMerging(Tail(books), indexedBsb)
         ELSE LET r == indexChapters(Get(book, "chapters").a, EmptyObject)
                  key == finalBookKey(Get(book, "name").s)
                  old == IF key \in DOMAIN indexedBsb THEN indexedBsb[key] ELSE EmptyObject
                  both == [x \in DOMAIN old \cup DOMAIN r.obj |->
                             IF x \in DOMAIN r.obj THEN r.obj[x] ELSE old[x]]
              IN  IF r.threw THEN [threw |-> TRUE, obj |-> indexedBsb]
                  ELSE IF DOMAIN r.obj # {}
                  THEN indexBooksMerging(Tail(books), Put(indexedBsb, key, both))
                  ELSE indexBooksMerging(Tail(books), indexedBsb)

\* jsonData.books.forEach(...): the index after the books, or the index as
\* far as it was built when an entry made the callback throw
RECURSIVE indexBooks(_, _)
indexBooks(books, indexedBsb) ==
    IF books = <<>> THEN [threw |-> FALSE, obj |-> indexedBsb]
    ELSE LET book == Head(books) IN
         IF book.t \in {"null", "undefined"} \/ Get(book, "name").t # "string"
         THEN indexBooks(Tail(books), indexedBsb)
         ELSE IF Get(book, "chapters").t # "array"
         THEN indexBooks(Tail(books), indexedBsb)
         ELSE LET r == indexChapters(Get(book, "chapters").a, EmptyObject)
              IN  IF r.threw THEN [threw |-> TRUE, obj |-> indexedBsb]
                  ELSE IF DOMAIN r.obj # {}
                  THEN indexBooks(Tail(books),
                                  Put(indexedBsb, finalBookKey(Get(book, "name").s), r.obj))
                  ELSE indexBooks(Tail(books), indexedBsb)

\* parseAndIndexBsbData taking an input without a books array for an empty one
parseAndIndexBsbDataLenient(jsonData) ==
    IF jsonData.t \in {"null", "undefined"} \/ Get(jsonData, "books").t # "array"
    THEN [threw |-> FALSE, obj |-> EmptyObject]
    ELSE LET r == indexBooks(Get(jsonData, "books").a, EmptyObject)
         IN  IF r.threw THEN r
             ELSE IF DOMAIN r.obj = {} THEN [threw |-> TRUE, obj |-> r.obj]
             ELSE r

\* parseAndIndexBsbData(jsonData): threw says whether the call ended in
\* "Failed to process BSB data"; obj is the local indexedBsb at that point
\* (the returned index when threw is FALSE)
parseAndIndexBsbData(jsonData) ==
    IF jsonData.t \in {"null", "undefined"} \/ Get(jsonData, "books").t # "array"
    THEN [threw |-> TRUE, obj |-> EmptyObject]
    ELSE LET r == indexBooks(Get(jsonData, "books").a, EmptyObject)
         IN  IF r.threw THEN r
             ELSE IF DOMAIN r.obj = {} THEN [threw |-> TRUE, obj |-> r.obj]
             ELSE r

\* ------------------------------------------------------------------ data_fetcher.js
NotReadyMarker == <<"[", "B", "S", "B", " ", "D", "a", "t", "a", " ", "N", "o", "t", " ", "R", "e", "a", "d", "y", "]">>
MissingReferenceMarker == <<"[", "N", "/", "A", "]">>
LookupErrorMarker == <<"[", "L", "o", "o", "k", "u", "p", " ", "E", "r", "r", "o", "r", "]">>
TruncationMarker == <<" ", "[", ".", ".", ".", "]">>
InvalidFormatMarker(ref) == <<"[", "I", "n", "v", "a", "l", "i", "d", " ", "R", "e", "f", " ", "F", "o", "r", "m", "a", "t", ":", " ">> \o ref \o <<"]">>
BookNotFoundMarker(key) == <<"[", "B", "o", "o", "k", " ", "K", "e", "y", " ", "N", "o", "t", " ", "F", "o", "u", "n", "d", ":", " ">> \o key \o <<"]">>
VerseNotFoundMarker(ref) == <<"[", "V", "e", "r", "s", "e", "/", "C", "h", "a", "p", "t", "e", "r", " ", "N", "o", "t", " ", "F", "o", "u", "n", "d", ":", " ">> \o ref \o <<"]">>

IsDigits(s) == s # <<>> /\ \A i \in 1..Len(s) : IsDigit(s[i])

\* [A-Za-z]+(?:\s[A-Za-z]+)*
IsWords(s) ==
    /\ s # <<>>
    /\ IsLetter(s[1]) /\ IsLetter(s[Len(s)])
    /\ \A i \in 1..Len(s) : IsLetter(s[i]) \/ IsSpace(s[i])
    /\ \A i \in 1..(Len(s) - 1) : ~(IsSpace(s[i]) /\ IsSpace(s[i + 1]))

\* \d?\s?[A-Za-z]+(?:\s[A-Za-z]+)* : the book-name capture group
IsBookPart(s) ==
    LET p1 == IF s # <<>> /\ IsDigit(s[1]) THEN Tail(s) ELSE s
        p2 == IF p1 # <<>> /\ IsSpace(p1[1]) THEN Tail(p1) ELSE p1
    IN  IsWords(p2)

\* the longest run of digits at the end of s
RECURSIVE trailingDigits(_)
trailingDigits(s) ==
    IF s # <<>> /\ IsDigit(s[Len(s)])
    THEN trailingDigits(SubSeq(s, 1, Len(s) - 1)) \o <<s[Len(s)]>>
    ELSE <<>>

NoMatch == [ok |-> FALSE, book |-> <<>>, chapter |-> <<>>, verse |-> <<>>, end |-> <<>>]

\* matchRef with the leading zeros of the chapter and verse groups dropped
matchRefNormalizing(cleanRef) ==
    LET colon == indexOf(cleanRef, ":")
        before == substring(cleanRef, 0, colon)
        after == substring(cleanRef, colon + 1, Len(cleanRef))
        dash == indexOf(after, "-")
        verse == IF dash = -1 THEN after ELSE substring(after, 0, dash)
        end == IF dash = -1 THEN <<>> ELSE substring(after, dash + 1, Len(after))
        chapter == trailingDigits(before)
        rest == SubSeq(before, 1, Len(before) - Len(chapter))
        book == IF rest # <<>> /\ IsSpace(rest[Len(rest)])
                THEN SubSeq(rest, 1, Len(rest) - 1) ELSE rest
        normalized(digits) ==
            IF \A i \in 1..Len(digits) : digits[i] = "0" THEN <<"0">>
            ELSE SubSeq(digits,
                        CHOOSE i \in 1..Len(digits) :
                            digits[i] # "0" /\ \A j \in 1..(i - 1) : digits[j] = "0",
                        Len(digits))
    IN  IF /\ colon # -1
           /\ IsDigits(verse)
           /\ (dash # -1 => IsDigits(end))
           /\ IsDigits(chapter)
           /\ IsBookPart(book)
        THEN [ok |-> TRUE, book |-> book, chapter |-> normalized(chapter),
              verse |-> normalized(verse), end |-> end]
        ELSE NoMatch

\* cleanRef.match(/^(\d?\s?[A-Za-z]+(?:\s[A-Za-z]+)*)\s?(\d+):(\d+)(?:-(\d+))?$/)
\* The groups are disjoint character classes around the first colon, so the
\* match is unique: end is <<>> when the optional group did not take part.
matchRef(cleanRef) ==
    LET colon == indexOf(cleanRef, ":")
        before == substring(cleanRef, 0, colon)
        after == substring(cleanRef, colon + 1, Len(cleanRef))
        dash == indexOf(after, "-")
        verse == IF dash = -1 THEN after ELSE substring(after, 0, dash)
        end == IF dash = -1 THEN <<>> ELSE substring(after, dash + 1, Len(after))
        chapter == trailingDigits(before)
        rest == SubSeq(before, 1, Len(before) - Len(chapter))
        book == IF rest # <<>> /\ IsSpace(rest[Len(rest)])
                THEN SubSeq(rest, 1, Len(rest) - 1) ELSE rest
    IN  IF /\ colon # -1
           /\ IsDigits(verse)
           /\ (dash # -1 => IsDigits(end))
           /\ IsDigits(chapter)
           /\ IsBookPart(book)
        THEN [ok |-> TRUE, book |-> book, chapter |-> chapter, verse |-> verse, end |-> end]
        ELSE NoMatch

\* IsFalsy with the empty string taken for a reference
IsFalsyButEmptyString(v) ==
    \/ v.t \in {"null", "undefined"}
    \/ v.t = "number" /\ v.n = 0

\* !refString
IsFalsy(v) ==
    \/ v.t \in {"null", "undefined"}
    \/ v.t = "string" /\ v.s = <<>>
    \/ v.t = "number" /\ v.n = 0

\* `${refString}`: the conversion throws a TypeError for a Symbol and for an
\* object whose own toString is not callable (any toString read from JSON)
ToStringThrows(v) ==
    \/ v.t = "symbol"
    \/ v.t = "object" /\ "toString" \in DOMAIN v.o

\* whether index[bookName] is truthy: an own key of the index, or the one
\* lower-case alphabetic name a plain object inherits from Object.prototype
HasProperty(index, bookName) == bookName \in DOMAIN index \/ bookName = ConstructorKey

Returned(s) == [threw |-> FALSE, value |-> s]
Thrown == [threw |-> TRUE, value |-> <<>>]

\* the catch block of getVerseText: logs the reference, returns [Lookup Error]
lookupCatch(refString) ==
    IF ToStringThrows(refString) THEN Thrown ELSE Returned(LookupErrorMarker)

\* lookupString with the truncation marker appended for a range only
lookupStringMarkingRangesOnly(ref, index) ==
    LET trimmed == trim(ref)
        commaIndex == indexOf(trimmed, ",")
        cleanRef == IF commaIndex # -1 THEN trim(substring(trimmed, 0, commaIndex))
                    ELSE trimmed
        match == matchRef(cleanRef)
        bookName == stripSpaces(toLowerCase(match.book))
        chapterNum == match.chapter
        verseNum == match.verse
    IN  IF ~match.ok THEN Returned(InvalidFormatMarker(ref))
        ELSE IF ~HasProperty(index, bookName) THEN Returned(BookNotFoundMarker(bookName))
        ELSE IF \/ bookName \notin DOMAIN index
                \/ chapterNum \notin DOMAIN index[bookName]
                \/ verseNum \notin DOMAIN index[bookName][chapterNum]
                \/ index[bookName][chapterNum][verseNum] = <<>>
        THEN Returned(VerseNotFoundMarker(ref))
        ELSE LET text == index[bookName][chapterNum][verseNum]
             IN  IF match.end # <<>>
                 THEN Returned(text \o TruncationMarker)
                 ELSE Returned(text)

\* lookupString with the book key passed through the alias table
lookupStringAliasing(ref, index) ==
    LET trimmed == trim(ref)
        commaIndex == indexOf(trimmed, ",")
        cleanRef == IF commaIndex # -1 THEN trim(substring(trimmed, 0, commaIndex))
                    ELSE trimmed
        match == matchRef(cleanRef)
        bookName == standardKey(stripSpaces(toLowerCase(match.book)))
        chapterNum == match.chapter
        verseNum == match.verse
    IN  IF ~match.ok THEN Returned(InvalidFormatMarker(ref))
        ELSE IF ~HasProperty(index, bookName) THEN Returned(BookNotFoundMarker(bookName))
        ELSE IF \/ bookName \notin DOMAIN index
                \/ chapterNum \notin DOMAIN index[bookName]
                \/ verseNum \notin DOMAIN index[bookName][chapterNum]
                \/ index[bookName][chapterNum][verseNum] = <<>>
        THEN Returned(VerseNotFoundMarker(ref))
        ELSE LET text == index[bookName][chapterNum][verseNum]
             IN  IF match.end # <<>> \/ commaIndex # -1
                 THEN Returned(text \o TruncationMarker)
                 ELSE Returned(text)

\* lookupString with the diagnostics carrying the part that was parsed
lookupStringReportingParsedPart(ref, index) ==
    LET trimmed == trim(ref)
        commaIndex == indexOf(trimmed, ",")
        cleanRef == IF commaIndex # -1 THEN trim(substring(trimmed, 0, commaIndex))
                    ELSE trimmed
        match == matchRef(cleanRef)
        bookName == stripSpaces(toLowerCase(match.book))
        chapterNum == match.chapter
        verseNum == match.verse
    IN  IF ~match.ok THEN Returned(InvalidFormatMarker(cleanRef))
        ELSE IF ~HasProperty(index, bookName) THEN Returned(BookNotFoundMarker(bookName))
        ELSE IF \/ bookName \notin DOMAIN index
                \/ chapterNum \notin DOMAIN index[bookName]
                \/ verseNum \notin DOMAIN index[bookName][chapterNum]
                \/ index[bookName][chapterNum][verseNum] = <<>>
        THEN Returned(VerseNotFoundMarker(cleanRef))
        ELSE LET text == index[bookName][chapterNum][verseNum]
             IN  IF match.end # <<>> \/ commaIndex # -1
                 THEN Returned(text \o TruncationMarker)
                 ELSE Returned(text)

\* the try block of getVerseText for a string argument; index is the
\* object held by _parsedBsbData
lookupString(ref, index) ==
    LET trimmed == trim(ref)
        commaIndex == indexOf(trimmed, ",")
        cleanRef == IF commaIndex # -1 THEN trim(substring(trimmed, 0, commaIndex))
                    ELSE trimmed
        match == matchRef(cleanRef)
        bookName == stripSpaces(toLowerCase(match.book))
        chapterNum == match.chapter
        verseNum == match.verse
    IN  IF ~match.ok THEN Returned(InvalidFormatMarker(ref))
        ELSE IF ~HasProperty(index, bookName) THEN Returned(BookNotFoundMarker(bookName))
        ELSE IF \/ bookName \notin DOMAIN index
                \/ chapterNum \notin DOMAIN index[bookName]
                \/ verseNum \notin DOMAIN index[bookName][chapterNum]
                \/ index[bookName][chapterNum][verseNum] = <<>>
        THEN Returned(VerseNotFoundMarker(ref))
        ELSE LET text == index[bookName][chapterNum][verseNum]
             IN  IF match.end # <<>> \/ commaIndex # -1
                 THEN Returned(text \o TruncationMarker)
                 ELSE Returned(text)

\* getVerseText(refString) when _parsedBsbData is data
getVerseText(refString, data) ==
    IF data.t = "null" THEN Returned(NotReadyMarker)
    ELSE IF IsFalsy(refString) THEN Returned(MissingReferenceMarker)
    ELSE IF refString.t = "string" THEN lookupString(refString.s, data.o)
    ELSE lookupCatch(refString)

\* isBsbDataReady()
isBsbDataReady(data) == data.t # "null"

\* ------------------------------------------------------------------ documents
Verse(n, text) == JObj([verse |-> JNum(n), text |-> JStr(text)])
Chapter(n, verses) == JObj([chapter |-> JNum(n), verses |-> JArr(verses)])
Book(name, chapters) == JObj([name |-> JStr(name), chapters |-> JArr(chapters)])
Document(translation, books) ==
    JObj([translation |-> JStr(translation), books |-> JArr(books)])

NameJohn == <<"J", "o", "h", "n">>
NamePsalms == <<"P", "s", "a", "l", "m", "s">>
NameISamuel == <<"I", " ", "S", "a", "m", "u", "e", "l">>
NameFirstSamuel == <<"F", "i", "r", "s", "t", " ", "S", "a", "m", "u", "e", "l">>
Name1Samuel == <<"1", " ", "S", "a", "m", "u", "e", "l">>
NameSongOfSolomon == <<"S", "o", "n", "g", " ", "o", "f", " ", "S", "o", "l", "o", "m", "o", "n">>
NameNonexistent == <<"N", "o", "n", "e", "x", "i", "s", "t", "e", "n", "t">>
NameConstructor == <<"C", "o", "n", "s", "t", "r", "u", "c", "t", "o", "r">>

TextA == <<"F", "o", "r", " ", "G", "o", "d">>
TextB == <<"s", "o", " ", "l", "o", "v", "e", "d">>
TextC == <<"t", "h", "e", " ", "w", "o", "r", "l", "d">>
TextPadded == <<" ", "M", "y", " ", "h", "e", "a", "r", "t", " ", "\n">>
TextBlank == <<" ", " ">>

BSB == <<"B", "S", "B">>
KJV == <<"K", "J", "V">>

\* John 3:16-18
ChaptersJohn3 ==
    <<Chapter(3, <<Verse(16, TextA), Verse(17, TextB), Verse(18, TextC)>>)>>
\* 2:1 (text to be trimmed) and 16:10
ChaptersTwoAndSixteen ==
    <<Chapter(2, <<Verse(1, TextPadded)>>), Chapter(16, <<Verse(10, TextB)>>)>>
\* 2:1 is the empty string, 3:16 is blank, 3:17 is neither
ChaptersBlankVerse ==
    <<Chapter(2, <<Verse(1, <<>>)>>),
      Chapter(3, <<Verse(16, TextBlank), Verse(17, TextB)>>)>>
\* a chapter whose number is a string, then a well-formed chapter
ChaptersOneMalformed ==
    <<JObj([chapter |-> JStr(<<"3">>), verses |-> JArr(<<Verse(16, TextA)>>)]),
      Chapter(4, <<Verse(7, TextC)>>)>>
\* a null entry in the chapters array
ChaptersNullEntry == <<JNull, Chapter(3, <<Verse(16, TextA)>>)>>

\* the documents a fetch of data/BSB.json may deliver
DocJohn == Document(BSB, <<Book(NameJohn, ChaptersJohn3)>>)
DocSamuelPsalms ==
    Document(KJV, <<Book(NameISamuel, ChaptersTwoAndSixteen),
                    Book(NamePsalms, ChaptersTwoAndSixteen)>>)
\* the second book makes the build throw after the first was indexed
DocThrowsPartway ==
    Document(KJV, <<Book(NamePsalms, ChaptersJohn3), Book(NameJohn, ChaptersNullEntry)>>)
DocNoBooks == JObj([translation |-> JStr(BSB)])
DocNothingValid == Document(BSB, <<Book(NameJohn, <<>>), JNull>>)
FetchedDocs == {DocJohn, DocSamuelPsalms, DocThrowsPartway, DocNoBooks, DocNothingValid, JNull}

\* the arguments getVerseText is called with
RefJohn316 == <<"J", "o", "h", "n", " ", "3", ":", "1", "6">>
RefPsalms1610 == <<"P", "s", "a", "l", "m", "s", " ", "1", "6", ":", "1", "0">>
\* " John 9:9 , Psalms 16:10": spaces around a well-formed first part
RefJohn99Padded ==
    <<" ", "J", "o", "h", "n", " ", "9", ":", "9", " ", ",", " ">> \o RefPsalms1610
\* " Nonexistent 3, John 3:16 ": the first part has no verse
RefNoVersePadded ==
    <<" ">> \o NameNonexistent \o <<" ", "3", ",", " ">> \o RefJohn316 \o <<" ">>
RefConstructor21 == NameConstructor \o <<" ", "2", ":", "1">>
QueryArgs ==
    {JNull, JUndefined, JStr(<<>>), JStr(RefJohn316), JStr(RefPsalms1610), JNum(7),
     JStr(RefJohn99Padded), JStr(RefNoVersePadded), JStr(RefConstructor21)}

\* ------------------------------------------------------------------ state
MaxCalls == 2
CallIds == 1..MaxCalls

UnknownName == <<"[", "U", "n", "k", "n", "o", "w", "n", "]">>
UnknownTranslation == <<"U", "n", "k", "n", "o", "w", "n", " ", "T", "r", "a", "n", "s", "l", "a", "t", "i", "o", "n">>
ErrorLoading == <<"[", "E", "r", "r", "o", "r", " ", "L", "o", "a", "d", "i", "n", "g", "]">>

VARIABLES
    _parsedBsbData,     \* null, or the published index as JObj(index)
    _translationName,
    calls,              \* each fetchAndParseBsbData call: where it stands, its jsonData
    query               \* the latest getVerseText call: argument and outcome

VARIABLES
    _availableCategories,       \* the categories array of the manifest
    _currentCategoryFilter,
    _filteredReferences,
    _currentSelectionIndex,
    _currentSelectionRefPair,
    initPc,                     \* where initializeApp stands
    event                       \* the handler run by the latest step and what it did

\* the globals and the elements of the earlier iterations of the page:
\* script.js (multi-file viewer) and part_000 (prototype V2)
VARIABLES
    availableCategories,        \* script.js: the categories of categories.json
    currentCategoryData,        \* script.js
    currentCategoryFilter,      \* script.js
    loadedProphecies,           \* part_000
    currentSelectionIndex,      \* script.js, part_000
    loadingIndicator,           \* style.display of #loading-indicator
    errorMessageElement,        \* style.display of #error-message
    prophecyContentElement,     \* style.display of #prophecy-content
    prophecyListElement,        \* the dataset.index values of the li with a click listener
    manifestPc,                 \* script.js: where fetchManifest stands
    requests                    \* the fetchCategoryData / fetchProphecyData calls

statusVars == <<loadingIndicator, errorMessageElement, prophecyContentElement>>
pageVars ==
    <<availableCategories, currentCategoryData, currentCategoryFilter, loadedProphecies,
      currentSelectionIndex, statusVars, prophecyListElement, manifestPc, requests>>

fetcherVars == <<_parsedBsbData, _translationName, calls, query>>
appState ==
    <<_currentCategoryFilter, _filteredReferences, _currentSelectionIndex,
      _currentSelectionRefPair>>
vars == <<fetcherVars, _availableCategories, appState, initPc, event, pageVars>>

NoQuery == [made |-> FALSE, arg |-> JUndefined, result |-> Thrown]

AllCategories == <<"A", "l", "l", " ", "C", "a", "t", "e", "g", "o", "r", "i", "e", "s">>
NoEvent == [by |-> "none", target |-> JUndefined, lookups |-> <<>>, texts |-> <<>>]

MaxRequests == 3
RequestIds == 1..MaxRequests
NoRequest == [pc |-> "idle", categoryName |-> <<>>]

\* the globals of script.js and part_000 as declared, no script having run:
\* no inline style is set, no list item has a listener
PageInit ==
    /\ availableCategories = <<>>
    /\ currentCategoryData = <<>>
    /\ currentCategoryFilter = AllCategories
    /\ loadedProphecies = <<>>
    /\ currentSelectionIndex = 0
    /\ loadingIndicator = ""
    /\ errorMessageElement = ""
    /\ prophecyContentElement = ""
    /\ prophecyListElement = <<>>
    /\ manifestPc = "start"
    /\ requests = [r \in RequestIds |-> NoRequest]

\* the module state of app.js before initializeApp runs
AppInit ==
    /\ PageInit
    /\ _availableCategories = <<>>
    /\ _currentCategoryFilter = JStr(AllCategories)
    /\ _filteredReferences = <<>>
    /\ _currentSelectionIndex = JNum(0)
    /\ _currentSelectionRefPair = JNull
    /\ initPc = "start"
    /\ event = NoEvent

\* a step that runs no code of app.js or event_handler.js
AppIdle ==
    /\ UNCHANGED <<_availableCategories, appState, initPc, pageVars>>
    /\ event' = NoEvent

Init ==
    /\ _parsedBsbData = JNull
    /\ _translationName = JStr(UnknownName)
    /\ calls = [c \in CallIds |-> [pc |-> "idle", jsonData |-> JUndefined]]
    /\ query = NoQuery
    /\ AppInit

\* CatchAndRethrow without the reset of the index
CatchAndRethrowKeepingIndex(c) ==
    /\ UNCHANGED _parsedBsbData
    /\ _translationName' = JStr(ErrorLoading)
    /\ calls' = [calls EXCEPT ![c].pc = "rejected"]

\* the catch block of fetchAndParseBsbData
CatchAndRethrow(c) ==
    /\ _parsedBsbData' = JNull
    /\ _translationName' = JStr(ErrorLoading)
    /\ calls' = [calls EXCEPT ![c].pc = "rejected"]

\* fetchAndParseBsbData() is called: the fetch is issued
StartFetch(c) ==
    /\ calls[c].pc = "idle"
    /\ \A d \in CallIds : d < c => calls[d].pc # "idle"
    /\ calls' = [calls EXCEPT ![c].pc = "fetch"]
    /\ query' = NoQuery
    /\ UNCHANGED <<_parsedBsbData, _translationName>>

\* the response arrives with response.ok
FetchOk(c) ==
    /\ calls[c].pc = "fetch"
    /\ calls' = [calls EXCEPT ![c].pc = "json"]
    /\ query' = NoQuery
    /\ UNCHANGED <<_parsedBsbData, _translationName>>

\* the fetch rejects, or the response is not ok
FetchFails(c) ==
    /\ calls[c].pc = "fetch"
    /\ CatchAndRethrow(c)
    /\ query' = NoQuery

\* response.json() rejects: the body is not JSON
JsonFails(c) ==
    /\ calls[c].pc = "json"
    /\ CatchAndRethrow(c)
    /\ query' = NoQuery

\* jsonData.translation || "Unknown Translation"
translationOf(jsonData) ==
    LET name == Get(jsonData, "translation")
    IN  IF IsFalsy(name) THEN JStr(UnknownTranslation) ELSE name

\* response.json() resolves with d: the translation name is read and the
\* parse is scheduled with setTimeout; reading a property of null throws
JsonOk(c, d) ==
    /\ calls[c].pc = "json"
    /\ query' = NoQuery
    /\ IF d.t \in {"null", "undefined"}
       THEN /\ _parsedBsbData' = JNull
            /\ _translationName' = JStr(ErrorLoading)
            /\ calls' = [calls EXCEPT ![c] = [pc |-> "rejected", jsonData |-> d]]
       ELSE /\ _translationName' = translationOf(d)
            /\ calls' = [calls EXCEPT ![c] = [pc |-> "timer", jsonData |-> d]]
            /\ UNCHANGED _parsedBsbData

\* publishedAfterParse for a parser that builds into the published variable
publishedAfterParsePartial(r) == JObj(r.obj)

\* what the timer callback leaves in _parsedBsbData when the parser returned r
publishedAfterParse(r) == IF r.threw THEN JNull ELSE JObj(r.obj)

\* Object.assign of two indexes: the keys of both, those of newer winning
Merged(older, newer) ==
    [k \in DOMAIN older \cup DOMAIN newer |-> IF k \in DOMAIN newer THEN newer[k] ELSE older[k]]

\* TimerFires for a build that adds to the index already published
TimerFiresMerging(c) ==
    /\ calls[c].pc = "timer"
    /\ query' = NoQuery
    /\ LET r == parseAndIndexBsbData(calls[c].jsonData)
       IN  /\ _parsedBsbData' =
                 IF r.threw THEN JNull
                 ELSE IF _parsedBsbData.t = "null" THEN JObj(r.obj)
                 ELSE JObj(Merged(_parsedBsbData.o, r.obj))
           /\ IF r.threw
              THEN /\ _translationName' = JStr(ErrorLoading)
                   /\ calls' = [calls EXCEPT ![c].pc = "rejected"]
              ELSE /\ calls' = [calls EXCEPT ![c].pc = "resolved"]
                   /\ UNCHANGED _translationName

\* the setTimeout callback runs the parser; the awaiting call then resumes
TimerFires(c) ==
    /\ calls[c].pc = "timer"
    /\ query' = NoQuery
    /\ LET r == parseAndIndexBsbData(calls[c].jsonData)
       IN  /\ _parsedBsbData' = publishedAfterParse(r)
           /\ IF r.threw
              THEN /\ _translationName' = JStr(ErrorLoading)
                   /\ calls' = [calls EXCEPT ![c].pc = "rejected"]
              ELSE /\ calls' = [calls EXCEPT ![c].pc = "resolved"]
                   /\ UNCHANGED _translationName

\* a caller invokes getVerseText(arg)
GetVerseText(arg) ==
    /\ query' = [made |-> TRUE, arg |-> arg, result |-> getVerseText(arg, _parsedBsbData)]
    /\ UNCHANGED <<_parsedBsbData, _translationName, calls>>

Next ==
    \/ \E c \in CallIds : StartFetch(c) /\ AppIdle
    \/ \E c \in CallIds : FetchOk(c) /\ AppIdle
    \/ \E c \in CallIds : FetchFails(c) /\ AppIdle
    \/ \E c \in CallIds : JsonFails(c) /\ AppIdle
    \/ \E c \in CallIds, d \in FetchedDocs : JsonOk(c, d) /\ AppIdle
    \/ \E c \in CallIds : TimerFires(c) /\ AppIdle
    \/ \E arg \in QueryArgs : GetVerseText(arg) /\ AppIdle

Spec == Init /\ [][Next]_vars

\* ------------------------------------------------------------------ resolver inputs
MaxBooks == 2

ResolveNames == {NameJohn, NamePsalms, NameISamuel, NameFirstSamuel, NameSongOfSolomon}
ResolveChapters ==
    {ChaptersJohn3, ChaptersTwoAndSixteen, ChaptersBlankVerse, ChaptersOneMalformed}
ResolveBooks == {Book(n, ch) : n \in ResolveNames, ch \in ResolveChapters}
\* documents of 1..MaxBooks books, and one the parser rejects
ResolveDocs ==
    {Document(BSB, bs) : bs \in UNION {[1..n -> ResolveBooks] : n \in 1..MaxBooks}}
        \cup {DocNoBooks}

\* the book names, chapter and verse keys, and tails references are made of
RefNames ==
    {NameJohn, NamePsalms, Name1Samuel, NameISamuel, NameSongOfSolomon,
     NameNonexistent, NameConstructor}
RefPlaces == {<<<<"2">>, <<"1">>>>, <<<<"3">>, <<"1", "6">>>>,
              <<<<"4">>, <<"7">>>>, <<<<"1", "6">>, <<"1", "0">>>>}
RangeEnds == {<<"1", "7">>, <<"1", "8">>, <<"9", "9">>}
CommaTail == <<",", " ", "P", "s", "a", "l", "m", "s", " ", "1", "6", ":", "1", "0">>

PlainRef(name, c, v) == name \o <<" ">> \o c \o <<":">> \o v
RangeRef(name, c, v, e) == PlainRef(name, c, v) \o <<"-">> \o e
CommaRef(name, c, v) == PlainRef(name, c, v) \o CommaTail

PlainRefs == {PlainRef(n, p[1], p[2]) : n \in RefNames, p \in RefPlaces}
RangeRefs == {RangeRef(n, p[1], p[2], e) : n \in RefNames, p \in RefPlaces, e \in RangeEnds}
CommaRefs == {CommaRef(n, p[1], p[2]) : n \in RefNames, p \in RefPlaces}
MalformedRefs ==
    {<<"J", "o", "h", "n">>,
     <<"J", "o", "h", "n", " ", "3">>,
     <<"3", ":", "1", "6">>,
     <<"J", "o", "h", "n", " ", " ", "3", ":", "1", "6">>,
     <<"J", "o", "h", "n", " ", "3", ":", "1", "6", "-">>,
     <<" ", "J", "o", "h", "n", " ", "3", ":", "1", "6", " ">>}

\* a Symbol, a plain object, and an object read from JSON with a toString entry
JSymbol == [t |-> "symbol"]
NonStringArgs ==
    {JNull, JUndefined, JNum(0), JNum(7), JSymbol, JObj([ref |-> JNum(1)]),
     JObj([toString |-> JNum(1)])}

ResolveArgs ==
    {JStr(r) : r \in PlainRefs \cup RangeRefs \cup CommaRefs \cup MalformedRefs \cup {<<>>}}
        \cup NonStringArgs

\* the state after one fetchAndParseBsbData call has settled on document d
InitResolve ==
    \E d \in ResolveDocs :
        LET r == parseAndIndexBsbData(d) IN
        /\ _parsedBsbData = publishedAfterParse(r)
        /\ _translationName = IF r.threw THEN JStr(ErrorLoading) ELSE translationOf(d)
        /\ calls = [c \in CallIds |->
                      IF c = 1
                      THEN [pc |-> IF r.threw THEN "rejected" ELSE "resolved", jsonData |-> d]
                      ELSE [pc |-> "idle", jsonData |-> JUndefined]]
        /\ query = NoQuery
        /\ AppInit

\* one lookup against the settled index
Resolve(arg) == ~query.made /\ GetVerseText(arg)

NextResolve == \E arg \in ResolveArgs : Resolve(arg) /\ AppIdle

SpecResolve == InitResolve /\ [][NextResolve]_vars

\* ------------------------------------------------------------------ properties
Rejects(c) == calls[c].pc # "rejected" /\ calls'[c].pc = "rejected"
Resolves(c) == calls[c].pc # "resolved" /\ calls'[c].pc = "resolved"

\* the index key of a book name: lower-cased, whitespace removed
LookupKey(name) == stripSpaces(toLowerCase(name))
\* the index a document parses to
IndexOf(d) == parseAndIndexBsbData(d).obj
\* the published index is exactly index
Published(index) == isBsbDataReady(_parsedBsbData) /\ _parsedBsbData.o = index
\* the latest getVerseText call was made with the string s
Asked(s) == query.made /\ query.arg.t = "string" /\ query.arg.s = s

\* C1: the index a lookup can see is null or the complete index returned by
\* the parser for the document of a call that resolved; never a partial one
C1_PublishedIndexIsComplete ==
    \/ ~isBsbDataReady(_parsedBsbData)
    \/ \E c \in CallIds :
          /\ calls[c].pc = "resolved"
          /\ ~parseAndIndexBsbData(calls[c].jsonData).threw
          /\ Published(IndexOf(calls[c].jsonData))

\* a build that threw after indexing a book has run, over an earlier index
C1_Witness ==
    \E c, d \in CallIds :
        /\ calls[c].pc = "rejected"
        /\ parseAndIndexBsbData(calls[c].jsonData).threw
        /\ DOMAIN IndexOf(calls[c].jsonData) # {}
        /\ calls[d].pc = "resolved"
        /\ ~isBsbDataReady(_parsedBsbData)

\* C2: a failing call rejects and leaves the index null; the index stays null
\* until a step in which a call succeeds; while it is null isBsbDataReady is
\* false and getVerseText gives [BSB Data Not Ready] for every argument
C2_FailureLeavesNotReady ==
    [][/\ \A c \in CallIds : Rejects(c) => _parsedBsbData'.t = "null"
       /\ (_parsedBsbData.t = "null" /\ _parsedBsbData'.t # "null")
             => \E c \in CallIds : Resolves(c)
       /\ _parsedBsbData'.t = "null" =>
             /\ ~isBsbDataReady(_parsedBsbData')
             /\ \A arg \in QueryArgs :
                   getVerseText(arg, _parsedBsbData') = Returned(NotReadyMarker)
             /\ query'.made => query'.result = Returned(NotReadyMarker)]_vars

\* a call failed after another had built an index, and a reference was asked for
C2_Witness ==
    \E c, d \in CallIds :
        /\ calls[c].pc = "resolved"
        /\ calls[d].pc = "rejected"
        /\ ~isBsbDataReady(_parsedBsbData)
        /\ Asked(RefJohn316)
        /\ query.result = Returned(NotReadyMarker)

\* a reference to book key k, chapter 3 verse 16
RefToKey(k) == JStr(k \o <<" ", "3", ":", "1", "6">>)

\* C3: a successful build replaces the published index by the index of its own
\* document; a book key only the replaced index had is answered Book Key Not
\* Found and every reference resolves as on the new document alone
C3_RebuildReplacesIndex ==
    [][\A c \in CallIds :
          (Resolves(c) /\ isBsbDataReady(_parsedBsbData)) =>
             LET fresh == IndexOf(calls[c].jsonData) IN
             /\ isBsbDataReady(_parsedBsbData') /\ _parsedBsbData'.o = fresh
             /\ \A k \in DOMAIN _parsedBsbData.o \ DOMAIN fresh :
                   /\ k \notin DOMAIN _parsedBsbData'.o
                   /\ getVerseText(RefToKey(k), _parsedBsbData')
                         = Returned(BookNotFoundMarker(k))]_vars

\* two calls have built different documents and the later index is published
C3_Witness ==
    /\ calls[1].pc = "resolved" /\ calls[2].pc = "resolved"
    /\ Published(IndexOf(calls[2].jsonData))
    /\ LookupKey(NamePsalms) \in DOMAIN IndexOf(calls[1].jsonData) \ DOMAIN _parsedBsbData.o
    /\ Asked(RefPsalms1610)
    /\ query.result = Returned(BookNotFoundMarker(LookupKey(NamePsalms)))

IsMissingArg(arg) == arg.t = "null" \/ (arg.t = "string" /\ arg.s = <<>>)

\* C4 as stated: getVerseText("") and getVerseText(null) return [N/A] in
\* every state of the index
C4_AlwaysMissingReference ==
    (query.made /\ IsMissingArg(query.arg)) => query.result = Returned(MissingReferenceMarker)

\* C4 amended: getVerseText("") and getVerseText(null) never throw; they return
\* [N/A] when an index is published and [BSB Data Not Ready] when none is
C4_MissingReferenceWhenReady ==
    (query.made /\ IsMissingArg(query.arg)) =>
        query.result = IF isBsbDataReady(_parsedBsbData)
                       THEN Returned(MissingReferenceMarker)
                       ELSE Returned(NotReadyMarker)

\* the empty string was asked for while an index was published
C4_Witness ==
    /\ Asked(<<>>)
    /\ isBsbDataReady(_parsedBsbData)
    /\ query.result = Returned(MissingReferenceMarker)

\* ---- the resolver against one settled index (SpecResolve)
\* every verse text stored in an index
StoredTexts(index) ==
    UNION {UNION {{index[k][c][v] : v \in DOMAIN index[k][c]} : c \in DOMAIN index[k]}
              : k \in DOMAIN index}

\* s is Marker(x) for some x
IsMarked(Marker(_), s) ==
    /\ Len(s) >= Len(Marker(<<>>))
    /\ s = Marker(SubSeq(s, Len(Marker(<<>>)), Len(s) - 1))

IsDiagnostic(s) ==
    \/ s \in {MissingReferenceMarker, NotReadyMarker, LookupErrorMarker}
    \/ IsMarked(InvalidFormatMarker, s)
    \/ IsMarked(BookNotFoundMarker, s)
    \/ IsMarked(VerseNotFoundMarker, s)

\* the index holds an entry for key k, chapter c, verse v
HasEntry(k, c, v) ==
    /\ isBsbDataReady(_parsedBsbData)
    /\ k \in DOMAIN _parsedBsbData.o
    /\ c \in DOMAIN _parsedBsbData.o[k]
    /\ v \in DOMAIN _parsedBsbData.o[k][c]

\* C5: for every argument and index state getVerseText returns and does not
\* throw, and the result is a stored verse text, a stored verse text followed
\* by the truncation marker, or one of the six bracketed diagnostics
C5_ResolverNeverThrows ==
    query.made =>
        /\ ~query.result.threw
        /\ \/ IsDiagnostic(query.result.value)
           \/ /\ isBsbDataReady(_parsedBsbData)
              /\ \E t \in StoredTexts(_parsedBsbData.o) :
                    query.result.value \in {t, t \o TruncationMarker}

\* C6: a reference "<Book> <c>:<v>" without range or comma whose key, chapter
\* and verse have an entry in the index gets exactly the stored text,
\* whatever it is
C6_PlainReferenceReturnsStoredText ==
    \A n \in RefNames, p \in RefPlaces :
        (/\ Asked(PlainRef(n, p[1], p[2]))
         /\ HasEntry(LookupKey(n), p[1], p[2]))
        => query.result = Returned(_parsedBsbData.o[LookupKey(n)][p[1]][p[2]])

\* the books array of the document the settled call fetched
BooksOf(d) == IF Get(d, "books").t = "array" THEN Get(d, "books").a ELSE <<>>
NameOf(book) == Get(book, "name").s

\* the texts a book entry gives for chapter number c and verse number v
SourceTexts(book, c, v) ==
    LET chapters == Get(book, "chapters").a IN
    UNION {{Get(verse, "text").s :
              verse \in {w \in Range(Get(chapters[i], "verses").a) :
                            /\ Get(w, "verse").t = "number" /\ Get(w, "verse").n = v
                            /\ Get(w, "text").t = "string"}}
           : i \in {j \in DOMAIN chapters :
                       /\ Get(chapters[j], "chapter").t = "number"
                       /\ Get(chapters[j], "chapter").n = c
                       /\ Get(chapters[j], "verses").t = "array"}}

\* C7: when the one book of the document that yields key 1samuel is named by
\* an alias (I Samuel, First Samuel), the index has the key 1samuel and
\* getVerseText("1 Samuel 2:1") is the text of chapter 2 verse 1 of that book
C7_AliasedBookIsFound ==
    LET books == BooksOf(calls[1].jsonData)
        key == LookupKey(Name1Samuel)
    IN  \A i \in DOMAIN books :
            (/\ calls[1].pc = "resolved"
             /\ NameOf(books[i]) \in {NameISamuel, NameFirstSamuel}
             /\ \A j \in DOMAIN books : finalBookKey(NameOf(books[j])) = key => j = i)
            => /\ key \in DOMAIN _parsedBsbData.o
               /\ \A t \in SourceTexts(books[i], 2, 1) :
                     Asked(PlainRef(Name1Samuel, <<"2">>, <<"1">>))
                     => query.result = Returned(trim(t))

\* the places (chapter number, verse number) references are made for
SourcePlaces == {<<2, 1>>, <<3, 16>>, <<4, 7>>, <<16, 10>>}

\* C8: for every book of the document and every verse of it with non-blank
\* text, getVerseText("<the book's name> c:v") is the verse's trimmed text
C8_DisplayNameRoundTrip ==
    LET books == BooksOf(calls[1].jsonData) IN
    \A i \in DOMAIN books, p \in SourcePlaces :
        \A t \in SourceTexts(books[i], p[1], p[2]) :
            (/\ calls[1].pc = "resolved"
             /\ trim(t) # <<>>
             /\ \A j \in DOMAIN books :
                   finalBookKey(NameOf(books[j])) = finalBookKey(NameOf(books[i])) => j = i
             /\ Asked(PlainRef(NameOf(books[i]), numToString(p[1]), numToString(p[2]))))
            => query.result = Returned(trim(t))

\* the references made of name n
RefsOfName(n) ==
    {PlainRef(n, p[1], p[2]) : p \in RefPlaces}
        \cup {RangeRef(n, p[1], p[2], e) : p \in RefPlaces, e \in RangeEnds}
        \cup {CommaRef(n, p[1], p[2]) : p \in RefPlaces}

\* C9: a well-formed reference whose key is not a book key of the built index
\* gets [Book Key Not Found: <key>] with exactly that key
C9_UnknownBookIsReported ==
    \A n \in RefNames :
        (/\ isBsbDataReady(_parsedBsbData)
         /\ \E r \in RefsOfName(n) : Asked(r)
         /\ LookupKey(n) \notin DOMAIN _parsedBsbData.o)
        => query.result = Returned(BookNotFoundMarker(LookupKey(n)))

\* C10: a range reference "<Book> c:v-e" whose book, chapter and start verse
\* are in the index gets the text of verse v followed by the truncation
\* marker, whatever e is
C10_RangeUsesStartVerse ==
    \A n \in RefNames, p \in RefPlaces, e \in RangeEnds :
        (/\ Asked(RangeRef(n, p[1], p[2], e))
         /\ HasEntry(LookupKey(n), p[1], p[2]))
        => query.result =
              Returned(_parsedBsbData.o[LookupKey(n)][p[1]][p[2]] \o TruncationMarker)

\* ------------------------------------------------------------------ build inputs
\* chapter 3 with a verse numbered by a string, a verse whose text is a number
\* and a well-formed verse; then a chapter without a verses array
ChaptersBadVerses ==
    <<Chapter(3, <<JObj([verse |-> JStr(<<"1", "6">>), text |-> JStr(TextA)]),
                   JObj([verse |-> JNum(17), text |-> JNum(1)]),
                   Verse(18, TextC)>>),
      JObj([chapter |-> JNum(4)])>>
\* chapters that keep no verse: an empty verses array, a verse without text
ChaptersNoVerse == <<Chapter(3, <<>>), Chapter(4, <<JObj([verse |-> JNum(7)])>>)>>
\* a null entry in the verses array of the second chapter
ChaptersNullVerse ==
    <<Chapter(2, <<Verse(1, TextB)>>), Chapter(3, <<Verse(16, TextA), JNull>>)>>

\* entries of the books array with every chapter and verse an object of the
\* expected shape
WellFormedBooks ==
    {Book(NameJohn, ChaptersJohn3), Book(NameJohn, ChaptersTwoAndSixteen),
     Book(NameJohn, ChaptersBlankVerse), Book(NameJohn, <<>>),
     Book(NameISamuel, ChaptersJohn3), Book(NameFirstSamuel, ChaptersTwoAndSixteen)}
\* entries that lack the expected shape somewhere, none of them null below
\* the book level
MalformedBooks ==
    {JNull,
     JObj([name |-> JNum(5), chapters |-> JArr(ChaptersJohn3)]),
     JObj([name |-> JStr(NameJohn)]),
     Book(NameJohn, ChaptersOneMalformed),
     Book(NameJohn, ChaptersBadVerses),
     Book(NameJohn, ChaptersNoVerse)}
\* entries with a null chapter or a null verse
NullEntryBooks == {Book(NameJohn, ChaptersNullEntry), Book(NameJohn, ChaptersNullVerse)}
BuildBooks == WellFormedBooks \cup MalformedBooks \cup NullEntryBooks

\* bodies of data/BSB.json without a books array
NoBooksDocs ==
    {JNull, JNum(0), JNum(7), JStr(<<>>), JArr(<<Book(NameJohn, ChaptersJohn3)>>),
     DocNoBooks,
     JObj([translation |-> JStr(BSB), books |-> Book(NameJohn, ChaptersJohn3)]),
     JObj([translation |-> JStr(BSB), books |-> JStr(NameJohn)]),
     Book(NameJohn, ChaptersJohn3)}
BooksDocs ==
    {Document(BSB, bs) : bs \in UNION {[1..n -> BuildBooks] : n \in 0..MaxBooks}}
BuildDocs == BooksDocs \cup NoBooksDocs

\* references asked of the built index
BuildRefNames == {NameJohn, Name1Samuel}
CommaTailSpaced == <<" ", ",", "J", "o", "h", "n", " ", "3", ":", "1", "7", ",", " ", "1", "8">>
CommaTails == {CommaTail, CommaTailSpaced}
RangeEnd17 == <<"1", "7">>

BuildPlainRefs == {PlainRef(n, p[1], p[2]) : n \in BuildRefNames, p \in RefPlaces}
BuildRangeRefs ==
    {RangeRef(n, p[1], p[2], e) : n \in BuildRefNames, p \in RefPlaces, e \in RangeEnds}
BuildCommaRefs ==
    {PlainRef(n, p[1], p[2]) \o t : n \in BuildRefNames, p \in RefPlaces, t \in CommaTails}
BuildRangeCommaRefs ==
    {RangeRef(n, p[1], p[2], RangeEnd17) \o t :
        n \in BuildRefNames, p \in RefPlaces, t \in CommaTails}
\* a comma first, a comma after a malformed part
CommaMalformedRefs ==
    {<<",", " ", "J", "o", "h", "n", " ", "3", ":", "1", "6">>,
     <<"J", "o", "h", "n", " ", "3", ",", " ", "J", "o", "h", "n", " ", "3", ":", "1", "6">>}

\* the chapter, or the verse, written with a leading zero
ZeroChapterRef(name, c, v) == PlainRef(name, <<"0">> \o c, v)
ZeroVerseRef(name, c, v) == PlainRef(name, c, <<"0">> \o v)
LeadingZeroRefs ==
    {ZeroChapterRef(n, p[1], p[2]) : n \in BuildRefNames, p \in RefPlaces}
        \cup {ZeroVerseRef(n, p[1], p[2]) : n \in BuildRefNames, p \in RefPlaces}

\* references whose book name is a variant spelling of the alias table
AliasNames == {NameISamuel, NameFirstSamuel, NameSongOfSolomon}
AliasRefs ==
    {PlainRef(NameISamuel, p[1], p[2]) : p \in RefPlaces}
        \cup {PlainRef(NameFirstSamuel, <<"2">>, <<"1">>),
              PlainRef(NameSongOfSolomon, <<"4">>, <<"7">>)}

BuildArgs ==
    {JStr(r) : r \in BuildPlainRefs \cup BuildRangeRefs \cup BuildCommaRefs
                     \cup BuildRangeCommaRefs \cup CommaMalformedRefs
                     \cup LeadingZeroRefs \cup AliasRefs}
        \cup {JNull, JNum(7)}

\* the response of the one fetchAndParseBsbData call has arrived
InitBuild ==
    /\ _parsedBsbData = JNull
    /\ _translationName = JStr(UnknownName)
    /\ calls = [c \in CallIds |->
                  IF c = 1 THEN [pc |-> "json", jsonData |-> JUndefined]
                  ELSE [pc |-> "idle", jsonData |-> JUndefined]]
    /\ query = NoQuery
    /\ AppInit

\* one lookup once the call has resolved
Lookup(arg) ==
    /\ calls[1].pc = "resolved"
    /\ Resolve(arg)

NextBuild ==
    \/ \E d \in BuildDocs : JsonOk(1, d) /\ AppIdle
    \/ TimerFires(1) /\ AppIdle
    \/ \E arg \in BuildArgs : Lookup(arg) /\ AppIdle

SpecBuild == InitBuild /\ [][NextBuild]_vars

\* ---- the resolver and the parser on the documents of SpecBuild
\* the stored text a lookup of book name n, chapter c, verse v reaches
Resolved(n, c, v) ==
    /\ HasEntry(LookupKey(n), c, v)
    /\ _parsedBsbData.o[LookupKey(n)][c][v] # <<>>
TextAt(n, c, v) == _parsedBsbData.o[LookupKey(n)][c][v]

\* the part of s before its first comma, trimmed
BeforeComma(s) == trim(substring(trim(s), 0, indexOf(trim(s), ",")))
HasComma(s) == \E i \in 1..Len(s) : s[i] = ","
EndsWithMarker(s) ==
    /\ Len(s) >= Len(TruncationMarker)
    /\ SubSeq(s, Len(s) - Len(TruncationMarker) + 1, Len(s)) = TruncationMarker
WithMarker(s) == IF EndsWithMarker(s) THEN s ELSE s \o TruncationMarker

\* C11: a reference with a comma is answered from the trimmed part before the
\* first comma alone: when that part resolves, the answer is its verse text
\* followed by the truncation marker, whatever follows the comma; a resolved
\* reference carries the marker exactly when it has a range or a comma
C11_CommaKeepsFirstReference ==
    /\ \A n \in BuildRefNames, p \in RefPlaces :
          Resolved(n, p[1], p[2]) =>
             /\ Asked(PlainRef(n, p[1], p[2]))
                   => query.result = Returned(TextAt(n, p[1], p[2]))
             /\ ((\E e \in RangeEnds : Asked(RangeRef(n, p[1], p[2], e)))
                 \/ (\E t \in CommaTails :
                        \/ Asked(PlainRef(n, p[1], p[2]) \o t)
                        \/ Asked(RangeRef(n, p[1], p[2], RangeEnd17) \o t)))
                   => query.result = Returned(TextAt(n, p[1], p[2]) \o TruncationMarker)
    /\ (query.made /\ query.arg.t = "string" /\ HasComma(query.arg.s)) =>
          LET head == getVerseText(JStr(BeforeComma(query.arg.s)), _parsedBsbData)
          IN  (~head.threw /\ ~IsDiagnostic(head.value))
                 => query.result = Returned(WithMarker(head.value))

\* a reference with a spaced comma and two commas in its tail was resolved
C11_Witness ==
    /\ Asked(PlainRef(NameJohn, <<"3">>, <<"1", "6">>) \o CommaTailSpaced)
    /\ Resolved(NameJohn, <<"3">>, <<"1", "6">>)
    /\ query.result = Returned(TextA \o TruncationMarker)

\* the call has received its document
HasDocument(c) == calls[c].pc \in {"timer", "resolved", "rejected"}
HasBooksArray(d) == Get(d, "books").t = "array"

\* C12: a build whose input is absent or has no books array fails, whatever
\* else the input holds: the parser throws, the call is rejected and never
\* resolves, and no index is published by it
C12_NoBooksArrayFails ==
    \A c \in CallIds :
        (HasDocument(c) /\ ~HasBooksArray(calls[c].jsonData)) =>
            /\ parseAndIndexBsbData(calls[c].jsonData).threw
            /\ calls[c].pc # "resolved"
            /\ calls[c].pc = "rejected" => ~isBsbDataReady(_parsedBsbData)

\* a document with a translation and a books entry that is no array was rejected
C12_Witness ==
    /\ calls[1].pc = "rejected"
    /\ calls[1].jsonData.t = "object"
    /\ Get(calls[1].jsonData, "translation").t = "string"
    /\ Get(calls[1].jsonData, "books").t = "object"
    /\ ~isBsbDataReady(_parsedBsbData)

\* entries of the expected shape
IsValidVerse(verse) == Get(verse, "verse").t = "number" /\ Get(verse, "text").t = "string"
IsValidChapter(chapter) ==
    Get(chapter, "chapter").t = "number" /\ Get(chapter, "verses").t = "array"
IsValidBook(book) == Get(book, "name").t = "string" /\ Get(book, "chapters").t = "array"

\* the book entry gives the index an entry: it has a valid chapter with a
\* valid verse
Yields(book) ==
    /\ IsValidBook(book)
    /\ \E chapter \in Range(Get(book, "chapters").a) :
          /\ IsValidChapter(chapter)
          /\ \E verse \in Range(Get(chapter, "verses").a) : IsValidVerse(verse)

\* C13: the build fails if and only if the input has no books array or no
\* book of it yields an index entry; every index returned has a book key
C13_FailsIffNothingIndexed ==
    \A c \in CallIds :
        HasDocument(c) =>
            LET d == calls[c].jsonData
                r == parseAndIndexBsbData(d)
            IN  /\ r.threw <=> (\/ ~HasBooksArray(d)
                                \/ \A book \in Range(BooksOf(d)) : ~Yields(book))
                /\ ~r.threw => DOMAIN r.obj # {}

\* the entries of the expected shape, in order, with their own arrays cleaned
CleanVerses(verses) == SelectSeq(verses, IsValidVerse)
CleanChapter(chapter) ==
    Chapter(Get(chapter, "chapter").n, CleanVerses(Get(chapter, "verses").a))
CleanChapters(chapters) ==
    LET kept == SelectSeq(chapters, IsValidChapter)
    IN  [i \in DOMAIN kept |-> CleanChapter(kept[i])]
CleanBook(book) == Book(Get(book, "name").s, CleanChapters(Get(book, "chapters").a))
CleanBooks(books) ==
    LET kept == SelectSeq(books, IsValidBook)
    IN  [i \in DOMAIN kept |-> CleanBook(kept[i])]

\* the outcome of two builds is the same: both fail, or both return the same index
SameBuild(r1, r2) == r1.threw = r2.threw /\ (~r1.threw => r1.obj = r2.obj)

\* C14: an entry that lacks the expected shape, a null entry included, is
\* skipped and never aborts the build: the outcome is that of the document
\* without the malformed entries
C14_MalformedEntriesAreSkipped ==
    \A c \in CallIds :
        (HasDocument(c) /\ HasBooksArray(calls[c].jsonData)) =>
            LET d == calls[c].jsonData
            IN  SameBuild(parseAndIndexBsbData(d),
                          parseAndIndexBsbData(Document(BSB, CleanBooks(BooksOf(d)))))

\* every entry of the document has the expected shape
WellFormed(d) ==
    /\ HasBooksArray(d)
    /\ \A book \in Range(BooksOf(d)) :
          /\ IsValidBook(book)
          /\ \A chapter \in Range(Get(book, "chapters").a) :
                /\ IsValidChapter(chapter)
                /\ \A verse \in Range(Get(chapter, "verses").a) : IsValidVerse(verse)

\* the number a string of decimal digits denotes
DigitValue(ch) == CHOOSE i \in 0..9 : DigitChars[i + 1] = ch
RECURSIVE DecimalValue(_)
DecimalValue(s) ==
    IF s = <<>> THEN 0 ELSE 10 * DecimalValue(SubSeq(s, 1, Len(s) - 1)) + DigitValue(s[Len(s)])
\* s is the decimal string of the natural number n
IsDecimalOf(s, n) ==
    /\ IsDigits(s)
    /\ Len(s) > 1 => s[1] # "0"
    /\ DecimalValue(s) = n

\* C15: the index built from a well-formed document has one entry per book
\* key, each the key of a book of the document; every chapter key and verse
\* key is the decimal string of the number of a source chapter and verse of
\* such a book, and the stored text is the trimmed text of that verse
C15_KeysAreDecimalStrings ==
    \A c \in CallIds :
        (calls[c].pc = "resolved" /\ WellFormed(calls[c].jsonData)) =>
            LET books == BooksOf(calls[c].jsonData)
                index == _parsedBsbData.o
            IN  /\ isBsbDataReady(_parsedBsbData)
                /\ Cardinality(DOMAIN index) <= Len(books)
                /\ \A k \in DOMAIN index : \A ck \in DOMAIN index[k] :
                      \A vk \in DOMAIN index[k][ck] :
                         \E book \in Range(books) :
                            /\ finalBookKey(NameOf(book)) = k
                            /\ \E chapter \in Range(Get(book, "chapters").a) :
                                  /\ IsDecimalOf(ck, Get(chapter, "chapter").n)
                                  /\ \E verse \in Range(Get(chapter, "verses").a) :
                                        /\ IsDecimalOf(vk, Get(verse, "verse").n)
                                        /\ index[k][ck][vk] = trim(Get(verse, "text").s)

\* a well-formed document with a two-digit chapter and a padded text was built
C15_Witness ==
    /\ calls[1].pc = "resolved"
    /\ WellFormed(calls[1].jsonData)
    /\ HasEntry(LookupKey(Name1Samuel), <<"1", "6">>, <<"1", "0">>)
    /\ HasEntry(LookupKey(Name1Samuel), <<"2">>, <<"1">>)
    /\ TextAt(Name1Samuel, <<"2">>, <<"1">>) = trim(TextPadded)
    /\ TextPadded # trim(TextPadded)

\* the chapter mapping the code builds for one book entry
ChapterMapping(book) ==
    IF IsValidBook(book) THEN indexChapters(Get(book, "chapters").a, EmptyObject).obj
    ELSE EmptyObject
\* book j is the last book of its key that has a valid chapter
IsLastWriter(books, j) ==
    /\ IsValidBook(books[j])
    /\ DOMAIN ChapterMapping(books[j]) # {}
    /\ \A m \in DOMAIN books :
          (/\ m > j
           /\ IsValidBook(books[m])
           /\ finalBookKey(NameOf(books[m])) = finalBookKey(NameOf(books[j])))
          => DOMAIN ChapterMapping(books[m]) = {}

\* C16: the entry of a book key is exactly the chapter mapping of the last
\* book of that key that has a valid chapter: a later such book replaces
\* an earlier one without merging, a later book without valid chapter leaves
\* the earlier entry; chapters only earlier books had are not found
C16_LastWriterWins ==
    \A c \in CallIds :
        calls[c].pc = "resolved" =>
            LET books == BooksOf(calls[c].jsonData)
                index == _parsedBsbData.o
            IN  \A j \in DOMAIN books :
                    IsLastWriter(books, j) =>
                        LET k == finalBookKey(NameOf(books[j]))
                            mapping == ChapterMapping(books[j])
                        IN  /\ k \in DOMAIN index
                            /\ index[k] = mapping
                            /\ \A n \in BuildRefNames, p \in RefPlaces :
                                  (/\ Asked(PlainRef(n, p[1], p[2]))
                                   /\ LookupKey(n) = k
                                   /\ p[1] \notin DOMAIN mapping)
                                  => query.result
                                        = Returned(VerseNotFoundMarker(PlainRef(n, p[1], p[2])))

\* two books of key 1samuel, each with valid chapters: chapter 3, which only
\* the earlier one has, is not found
C16_Witness ==
    LET books == BooksOf(calls[1].jsonData) IN
    /\ calls[1].pc = "resolved"
    /\ Len(books) = 2
    /\ IsValidBook(books[1]) /\ IsValidBook(books[2])
    /\ NameOf(books[1]) = NameISamuel /\ NameOf(books[2]) = NameFirstSamuel
    /\ <<"3">> \in DOMAIN ChapterMapping(books[1])
    /\ <<"3">> \notin DOMAIN _parsedBsbData.o[LookupKey(Name1Samuel)]
    /\ Asked(PlainRef(Name1Samuel, <<"3">>, <<"1", "6">>))
    /\ query.result.value = VerseNotFoundMarker(PlainRef(Name1Samuel, <<"3">>, <<"1", "6">>))

\* C17: an index that was returned has no empty mapping: it has a book key,
\* every book key has a chapter key, every chapter key has a verse key
C17_NoEmptyMapping ==
    \A c \in CallIds :
        HasDocument(c) =>
            LET r == parseAndIndexBsbData(calls[c].jsonData) IN
            /\ ~r.threw =>
                  /\ DOMAIN r.obj # {}
                  /\ \A k \in DOMAIN r.obj :
                        /\ DOMAIN r.obj[k] # {}
                        /\ \A ck \in DOMAIN r.obj[k] : DOMAIN r.obj[k][ck] # {}
            /\ calls[c].pc = "resolved" => Published(r.obj)

\* a book whose chapter 3 keeps one verse and whose chapter 4 has no verses
\* array was built: the index has chapter 3 alone
C17_Witness ==
    LET books == BooksOf(calls[1].jsonData) IN
    /\ calls[1].pc = "resolved"
    /\ Len(books) = 1
    /\ IsValidBook(books[1])
    /\ Len(Get(books[1], "chapters").a) = 2
    /\ ~IsValidChapter(Get(books[1], "chapters").a[2])
    /\ DOMAIN _parsedBsbData.o[LookupKey(NameJohn)] = {<<"3">>}

\* the indexes of the one-book documents
OneBookIndexes ==
    {IndexOf(Document(BSB, <<book>>)) :
        book \in {b \in WellFormedBooks : ~parseAndIndexBsbData(Document(BSB, <<b>>)).threw}}

\* C19: a lookup whose chapter is in the index and whose verse is not gets a
\* result that differs from the one the same reference gets from an index
\* that has the book and not the chapter: the returned value tells which
\* level of the lookup failed
C19_MissingLevelIsTold ==
    \A n \in BuildRefNames, p \in RefPlaces :
        (/\ Asked(PlainRef(n, p[1], p[2]))
         /\ isBsbDataReady(_parsedBsbData)
         /\ LookupKey(n) \in DOMAIN _parsedBsbData.o
         /\ p[1] \in DOMAIN _parsedBsbData.o[LookupKey(n)]
         /\ p[2] \notin DOMAIN _parsedBsbData.o[LookupKey(n)][p[1]])
        => \A other \in OneBookIndexes :
              (/\ LookupKey(n) \in DOMAIN other
               /\ p[1] \notin DOMAIN other[LookupKey(n)])
              => getVerseText(query.arg, JObj(other)) # query.result

\* C20: a reference that writes the chapter or the verse with a leading zero
\* is not resolved to the entry of that chapter and verse: it gets the
\* Verse/Chapter Not Found marker with the reference as written
C20_NoLeadingZeroNormalization ==
    \A n \in BuildRefNames, p \in RefPlaces :
        HasEntry(LookupKey(n), p[1], p[2]) =>
            /\ Asked(ZeroChapterRef(n, p[1], p[2]))
                  => query.result
                        = Returned(VerseNotFoundMarker(ZeroChapterRef(n, p[1], p[2])))
            /\ Asked(ZeroVerseRef(n, p[1], p[2]))
                  => query.result
                        = Returned(VerseNotFoundMarker(ZeroVerseRef(n, p[1], p[2])))

\* "John 3:016" was asked of an index that has chapter 3 verse 16 of john
C20_Witness ==
    /\ Asked(ZeroVerseRef(NameJohn, <<"3">>, <<"1", "6">>))
    /\ Resolved(NameJohn, <<"3">>, <<"1", "6">>)
    /\ query.result
          = Returned(VerseNotFoundMarker(ZeroVerseRef(NameJohn, <<"3">>, <<"1", "6">>)))

\* ------------------------------------------------------------------ app.js, event_handler.js
\* entries of references.json
Pair(ot, nt) == JObj([ot_ref |-> JStr(ot), nt_ref |-> JStr(nt)])
PairWithoutOt(nt) == JObj([nt_ref |-> JStr(nt)])
Category(name, pairs) == JObj([name |-> JStr(name), pairs |-> JArr(pairs)])

NameBirth == <<"B", "i", "r", "t", "h">>
NameMinistry == <<"M", "i", "n", "i", "s", "t", "r", "y">>
RefJohn317 == <<"J", "o", "h", "n", " ", "3", ":", "1", "7">>

CatBirth ==
    Category(NameBirth, <<Pair(RefPsalms1610, RefJohn316), PairWithoutOt(RefJohn317)>>)
\* a category that bears the name of the built-in filter
CatAll == Category(AllCategories, <<Pair(RefJohn316, RefJohn317)>>)
\* a category without a pairs array
CatNoPairs == JObj([name |-> JStr(NameMinistry)])
\* the categories arrays a fetch of references.json may deliver
Manifests == {<<CatBirth, CatAll>>, <<CatNoPairs, CatBirth>>, <<>>}
\* the bodies of data/BSB.json in the app
AppDocs == {DocJohn, DocNoBooks}

\* _getAvailableCategories().find(cat => cat.name === categoryName) and the
\* pairs of the category found
pairsOf(categories, categoryName) ==
    LET named(cat) == Get(cat, "name").t = "string" /\ Get(cat, "name").s = categoryName
        found == SelectSeq(categories, named)
    IN  IF found # <<>> /\ Get(found[1], "pairs").t = "array"
        THEN Get(found[1], "pairs").a ELSE <<>>

\* displayAppDetailedPair asking getVerseText whatever isBsbDataReady says
displayAppDetailedPairUnguarded(index, filteredReferences, data) ==
    IF index.t = "number" /\ index.n >= 0 /\ index.n < Len(filteredReferences)
    THEN LET pair == filteredReferences[index.n + 1]
             refs == <<Get(pair, "ot_ref"), Get(pair, "nt_ref")>>
         IN  [index |-> index, pair |-> pair,
              lookups |-> [i \in 1..2 |-> [arg |-> refs[i], ready |-> isBsbDataReady(data)]],
              texts |-> [i \in 1..2 |-> getVerseText(refs[i], data).value]]
    ELSE [index |-> JNull, pair |-> JNull, lookups |-> <<>>, texts |-> <<>>]

\* displayAppDetailedPair keeping the index it was given when that is no
\* index into the list
displayAppDetailedPairStoringIndex(index, filteredReferences, data) ==
    IF index.t = "number" /\ index.n >= 0 /\ index.n < Len(filteredReferences)
    THEN LET pair == filteredReferences[index.n + 1]
             bsbReady == isBsbDataReady(data)
             refs == <<Get(pair, "ot_ref"), Get(pair, "nt_ref")>>
         IN  [index |-> index, pair |-> pair,
              lookups |-> IF bsbReady
                          THEN [i \in 1..2 |-> [arg |-> refs[i], ready |-> isBsbDataReady(data)]]
                          ELSE <<>>,
              texts |-> [i \in 1..2 |->
                           IF bsbReady THEN getVerseText(refs[i], data).value
                           ELSE NotReadyMarker]]
    ELSE [index |-> index, pair |-> JNull, lookups |-> <<>>, texts |-> <<>>]

\* displayAppDetailedPair(index) over the list filteredReferences while
\* _parsedBsbData is data: the selection it leaves, the getVerseText calls it
\* makes and the two texts it hands to displayDetailedPairUI
displayAppDetailedPair(index, filteredReferences, data) ==
    IF index.t = "number" /\ index.n >= 0 /\ index.n < Len(filteredReferences)
    THEN LET pair == filteredReferences[index.n + 1]
             bsbReady == isBsbDataReady(data)
             refs == <<Get(pair, "ot_ref"), Get(pair, "nt_ref")>>
         IN  [index |-> index, pair |-> pair,
              lookups |-> IF bsbReady
                          THEN [i \in 1..2 |-> [arg |-> refs[i], ready |-> isBsbDataReady(data)]]
                          ELSE <<>>,
              texts |-> [i \in 1..2 |->
                           IF bsbReady THEN getVerseText(refs[i], data).value
                           ELSE NotReadyMarker]]
    ELSE [index |-> JNull, pair |-> JNull, lookups |-> <<>>, texts |-> <<>>]

\* a handler returns without calling into app.js
Ignored(by, target) ==
    /\ UNCHANGED appState
    /\ event' = [by |-> by, target |-> target, lookups |-> <<>>, texts |-> <<>>]

\* displayAppDetailedPair(index) called by the handler by
Display(index, by) ==
    LET r == displayAppDetailedPair(index, _filteredReferences, _parsedBsbData) IN
    /\ _currentSelectionIndex' = r.index
    /\ _currentSelectionRefPair' = r.pair
    /\ event' = [by |-> by, target |-> index, lookups |-> r.lookups, texts |-> r.texts]
    /\ UNCHANGED <<_currentCategoryFilter, _filteredReferences>>

\* filterAndRenderAppReferences(categoryName) called by the handler by
filterAndRenderAppReferences(categoryName, by) ==
    LET filtered == IF categoryName = AllCategories THEN <<>>
                    ELSE pairsOf(_availableCategories, categoryName)
        r == displayAppDetailedPair(IF Len(filtered) > 0 THEN JNum(0) ELSE JNull,
                                    filtered, _parsedBsbData)
    IN  /\ _currentCategoryFilter' = JStr(categoryName)
        /\ _filteredReferences' = filtered
        /\ _currentSelectionIndex' = r.index
        /\ _currentSelectionRefPair' = r.pair
        /\ event' = [by |-> by, target |-> JStr(categoryName),
                     lookups |-> r.lookups, texts |-> r.texts]

\* DOMContentLoaded: initializeApp runs up to await _fetchManifest()
StartInit ==
    /\ initPc = "start"
    /\ initPc' = "manifest"
    /\ event' = NoEvent
    /\ UNCHANGED <<fetcherVars, _availableCategories, appState, pageVars>>

\* the manifest arrives with a categories array; initializeApp goes on to
\* call fetchAndParseBsbData
ManifestOk(categories) ==
    /\ initPc = "manifest"
    /\ _availableCategories' = categories
    /\ initPc' = "bsb"
    /\ event' = NoEvent
    /\ StartFetch(1)
    /\ UNCHANGED <<appState, pageVars>>

\* ManifestFails for an initializeApp that fetches the translation all the same
ManifestFailsFetchingOn ==
    /\ initPc = "manifest"
    /\ initPc' = "failed"
    /\ event' = NoEvent
    /\ StartFetch(1)
    /\ UNCHANGED <<_availableCategories, appState, pageVars>>

\* the manifest fetch fails or has no categories array: the catch block
ManifestFails ==
    /\ initPc = "manifest"
    /\ initPc' = "failed"
    /\ event' = NoEvent
    /\ UNCHANGED <<fetcherVars, _availableCategories, appState, pageVars>>

\* InitResumes for an initializeApp that goes on whether or not the build failed
InitResumesIgnoringFailure ==
    IF calls'[1].pc \in {"resolved", "rejected"}
    THEN /\ initPc' = "ready"
         /\ _currentCategoryFilter' = JStr(AllCategories)
         /\ _filteredReferences' = <<>>
         /\ _currentSelectionIndex' = JNull
         /\ _currentSelectionRefPair' = JNull
         /\ event' = NoEvent
         /\ UNCHANGED <<_availableCategories, pageVars>>
    ELSE AppIdle

\* initializeApp after await _fetchBsbData(), in the task that settled call 1:
\* on success attachListeners and filterAndRenderAppReferences("All Categories")
InitResumes ==
    IF calls'[1].pc = "resolved" /\ isBsbDataReady(_parsedBsbData')
    THEN /\ initPc' = "ready"
         /\ _currentCategoryFilter' = JStr(AllCategories)
         /\ _filteredReferences' = <<>>
         /\ _currentSelectionIndex' = JNull
         /\ _currentSelectionRefPair' = JNull
         /\ event' = NoEvent
         /\ UNCHANGED <<_availableCategories, pageVars>>
    ELSE IF calls'[1].pc \in {"resolved", "rejected"}
    THEN /\ initPc' = "failed"
         /\ event' = NoEvent
         /\ UNCHANGED <<_availableCategories, appState, pageVars>>
    ELSE AppIdle

\* what app.js does in a step of call c of fetchAndParseBsbData
AfterFetchStep(c) == IF c = 1 /\ initPc = "bsb" THEN InitResumes ELSE AppIdle

\* what an event carries: its type or key, the li it hit
ActivatingKinds == {"click", "Enter", " "}
EventKinds == ActivatingKinds \cup {"Tab"}
\* dataset.categoryName of the li elements of the category list
CategoryTargets ==
    IF _availableCategories = <<>> THEN {JUndefined}
    ELSE {Get(_availableCategories[i], "name") : i \in DOMAIN _availableCategories}
\* parseInt(dataset.index) of the li elements of the reference list: an index
\* into a list of up to two pairs, one past it, or NaN for a prompt item
IndexTargets == {JNum(i) : i \in 0..Len(Get(CatBirth, "pairs").a)} \cup {JUndefined}

IsAllCategories(target) == target.t = "string" /\ target.s = AllCategories

\* handleCategorySelection(event), listeners being attached
HandleCategorySelection(target, kind) ==
    /\ initPc = "ready"
    /\ UNCHANGED <<fetcherVars, _availableCategories, initPc, pageVars>>
    /\ IF ~isBsbDataReady(_parsedBsbData) /\ ~IsAllCategories(target)
       THEN Ignored("handleCategorySelection", target)
       ELSE IF kind \in ActivatingKinds /\ target.t # "undefined"
       THEN filterAndRenderAppReferences(target.s, "handleCategorySelection")
       ELSE Ignored("handleCategorySelection", target)

\* handleReferenceSelection(event), listeners being attached
HandleReferenceSelection(target, kind) ==
    /\ initPc = "ready"
    /\ UNCHANGED <<fetcherVars, _availableCategories, initPc, pageVars>>
    /\ IF ~isBsbDataReady(_parsedBsbData)
       THEN Ignored("handleReferenceSelection", target)
       ELSE IF /\ kind \in ActivatingKinds
               /\ target.t = "number"
               /\ target.n >= 0 /\ target.n < Len(_filteredReferences)
       THEN Display(target, "handleReferenceSelection")
       ELSE Ignored("handleReferenceSelection", target)

\* ProphecyApp.app.displayAppDetailedPair(index) called through the public
\* interface
CallDisplayAppDetailedPair(index) ==
    /\ UNCHANGED <<fetcherVars, _availableCategories, initPc, pageVars>>
    /\ Display(index, "displayAppDetailedPair")

NextApp ==
    \/ StartInit
    \/ \E categories \in Manifests : ManifestOk(categories)
    \/ ManifestFails
    \/ \E c \in CallIds \ {1} : StartFetch(c) /\ AppIdle
    \/ \E c \in CallIds : FetchOk(c) /\ AfterFetchStep(c)
    \/ \E c \in CallIds : FetchFails(c) /\ AfterFetchStep(c)
    \/ \E c \in CallIds : JsonFails(c) /\ AfterFetchStep(c)
    \/ \E c \in CallIds, d \in AppDocs : JsonOk(c, d) /\ AfterFetchStep(c)
    \/ \E c \in CallIds : TimerFires(c) /\ AfterFetchStep(c)
    \/ \E kind \in EventKinds : \E target \in CategoryTargets :
          HandleCategorySelection(target, kind)
    \/ \E kind \in EventKinds, target \in IndexTargets :
          HandleReferenceSelection(target, kind)
    \/ \E index \in IndexTargets \cup {JNull} : CallDisplayAppDetailedPair(index)

SpecApp == Init /\ [][NextApp]_vars

\* the step ran the handler by
Ran(by) == event'.by = by

\* C18: every getVerseText call of app.js is made while isBsbDataReady() is
\* true; displayAppDetailedPair for a valid index while it is false hands on
\* [BSB Data Not Ready] for both texts; and while it is false a reference
\* selection event, and a category selection event for a category other than
\* "All Categories", leaves the filter, the filtered list and the selection as
\* they were and makes no lookup
C18_NoLookupBeforeReady ==
    [][/\ \A i \in DOMAIN event'.lookups : event'.lookups[i].ready
       /\ ~isBsbDataReady(_parsedBsbData) =>
             /\ event'.lookups = <<>>
             /\ event'.texts # <<>> => event'.texts = <<NotReadyMarker, NotReadyMarker>>
             /\ (\/ Ran("handleReferenceSelection")
                 \/ Ran("handleCategorySelection") /\ ~IsAllCategories(event'.target))
                   => UNCHANGED appState]_vars

\* with listeners attached, an index lost to a failed rebuild and the first
\* of two references selected, the second was clicked and nothing changed
C18_Witness ==
    /\ initPc = "ready"
    /\ ~isBsbDataReady(_parsedBsbData)
    /\ event.by = "handleReferenceSelection"
    /\ event.target.t = "number" /\ event.target.n = 1
    /\ Len(_filteredReferences) = 2
    /\ _currentSelectionIndex.t = "number" /\ _currentSelectionIndex.n = 0

\* the handlers of event_handler.js
SelectionHandlers == {"handleCategorySelection", "handleReferenceSelection"}

\* C21: in initializeApp the translation fetch starts in the step in which the
\* manifest fetch completes, never before; the category list is populated, the
\* listeners are attached and the first filterAndRenderAppReferences runs only
\* in a step in which fetchAndParseBsbData resolves and isBsbDataReady() is
\* true; and before that step no selection event is handled and no lookup is made
C21_ReadersFollowTheBuild ==
    [][/\ (calls[1].pc = "idle" /\ calls'[1].pc # "idle")
             => initPc = "manifest" /\ initPc' = "bsb"
       /\ initPc \in {"start", "manifest"} => \A c \in CallIds : calls[c].pc = "idle"
       /\ (initPc # "ready" /\ initPc' = "ready")
             => /\ initPc = "bsb"
                /\ Resolves(1)
                /\ isBsbDataReady(_parsedBsbData')
       /\ initPc' # "ready"
             => event'.by \notin SelectionHandlers /\ event'.lookups = <<>>]_vars

\* after initialization a click on a category made two lookups
C21_Witness ==
    /\ initPc = "ready"
    /\ calls[1].pc = "resolved"
    /\ event.by = "handleCategorySelection"
    /\ Len(event.lookups) = 2

\* C22: the lookup key of a reference is its book name lower-cased and
\* stripped of whitespace, never the key the alias table maps it to: a
\* reference whose book name is an alias variant returns the Book Key Not
\* Found marker with that raw key, also against an index that holds chapter
\* and verse under the standard key
C22_LookupKeyIsNotAliased ==
    \A n \in AliasNames : \A p \in RefPlaces :
        (Asked(PlainRef(n, p[1], p[2])) /\ isBsbDataReady(_parsedBsbData))
            => /\ LookupKey(n) # standardKey(LookupKey(n))
               /\ query.result = Returned(BookNotFoundMarker(LookupKey(n)))

\* "I Samuel 3:16" was asked of an index that holds 3:16 under 1samuel
C22_Witness ==
    /\ Asked(PlainRef(NameISamuel, <<"3">>, <<"1", "6">>))
    /\ isBsbDataReady(_parsedBsbData)
    /\ HasEntry(standardKey(LookupKey(NameISamuel)), <<"3">>, <<"1", "6">>)
    /\ query.result = Returned(BookNotFoundMarker(<<"i", "s", "a", "m", "u", "e", "l">>))

\* ---- the order of the checks of getVerseText (Spec)
\* no reference was passed
IsAbsentArg(arg) == IsMissingArg(arg) \/ arg.t = "undefined"
\* the part of the reference s that is parsed
ParsedPart(s) == IF HasComma(s) THEN BeforeComma(s) ELSE trim(s)
\* the index holds a text the code takes as present for key k, chapter c, verse v
HoldsText(k, c, v) == HasEntry(k, c, v) /\ _parsedBsbData.o[k][c][v] # <<>>

\* C23: for an absent or a string reference getVerseText returns one result,
\* the first that applies of: [BSB Data Not Ready] when no index is published,
\* [N/A] when the reference is absent, Invalid Ref Format when the parsed part
\* does not match, Book Key Not Found when the book test fails, Verse/Chapter
\* Not Found when the entry test fails, and no diagnostic otherwise; Invalid
\* Ref Format and Verse/Chapter Not Found carry the reference as passed in
C23_FailurePrecedence ==
    (query.made /\ (IsAbsentArg(query.arg) \/ query.arg.t = "string")) =>
        IF ~isBsbDataReady(_parsedBsbData)
        THEN query.result = Returned(NotReadyMarker)
        ELSE IF IsAbsentArg(query.arg)
        THEN query.result = Returned(MissingReferenceMarker)
        ELSE LET part == matchRef(ParsedPart(query.arg.s))
                 key == LookupKey(part.book)
             IN  IF ~part.ok
                 THEN query.result = Returned(InvalidFormatMarker(query.arg.s))
                 ELSE IF ~HasProperty(_parsedBsbData.o, key)
                 THEN query.result = Returned(BookNotFoundMarker(key))
                 ELSE IF ~HoldsText(key, part.chapter, part.verse)
                 THEN query.result = Returned(VerseNotFoundMarker(query.arg.s))
                 ELSE ~query.result.threw /\ ~IsDiagnostic(query.result.value)

\* " John 9:9 , Psalms 16:10" was asked of an index that holds john without
\* chapter 9: the diagnostic carries the whole argument
C23_Witness ==
    /\ Asked(RefJohn99Padded)
    /\ isBsbDataReady(_parsedBsbData)
    /\ LookupKey(NameJohn) \in DOMAIN _parsedBsbData.o
    /\ query.result = Returned(VerseNotFoundMarker(RefJohn99Padded))

\* C24: when the manifest fetch fails, or the call of fetchAndParseBsbData that
\* initializeApp awaits rejects, initializeApp ends in its catch block; from
\* then on it stays there: no selection event is handled (no listener was
\* attached), the filter and the filtered list are never written (no
\* filterAndRenderAppReferences runs), and after a failed manifest fetch the
\* translation fetch is never started
C24_FailedInitStaysFailed ==
    [][/\ (initPc = "manifest" /\ initPc' = "failed")
             => \A c \in CallIds : calls'[c].pc = "idle"
       /\ (initPc = "bsb" /\ Rejects(1)) => initPc' = "failed"
       /\ (initPc # "failed" /\ initPc' = "failed")
             => initPc = "manifest" \/ (initPc = "bsb" /\ Rejects(1))
       /\ initPc = "failed"
             => /\ initPc' = "failed"
                /\ event'.by \notin SelectionHandlers
                /\ event'.lookups = <<>>
                /\ UNCHANGED <<_currentCategoryFilter, _filteredReferences>>
                /\ calls[1].pc = "idle" => \A c \in CallIds : calls'[c].pc = "idle"]_vars

\* initializeApp failed on the build of a fetched document, and a later call
\* of fetchAndParseBsbData published an index: still no handler runs
C24_Witness ==
    /\ initPc = "failed"
    /\ calls[1].pc = "rejected" /\ calls[1].jsonData.t = "object"
    /\ calls[2].pc = "resolved"
    /\ isBsbDataReady(_parsedBsbData)
    /\ _filteredReferences = <<>>

\* ---- the translation name and overlapping calls (Spec)
\* call c resolved and its document built the index now published
BuiltPublished(c) ==
    /\ calls[c].pc = "resolved"
    /\ ~parseAndIndexBsbData(calls[c].jsonData).threw
    /\ Published(IndexOf(calls[c].jsonData))

\* C25: whenever isBsbDataReady() is true, getTranslationName() is the
\* translation name of the document the published index was built from
C25_NameMatchesPublishedIndex ==
    isBsbDataReady(_parsedBsbData) =>
        \E c \in CallIds :
            BuiltPublished(c) /\ _translationName = translationOf(calls[c].jsonData)

Settled(c) == calls[c].pc \in {"resolved", "rejected"}
\* calls 1 and 2 are the only calls made, and both have settled
BothSettled == Settled(1) /\ Settled(2) /\ \A c \in CallIds \ {1, 2} : calls[c].pc = "idle"
\* the published index is that of call c if it resolved, and absent if it rejected
PublishedIsOf(c) ==
    IF calls[c].pc = "resolved"
    THEN Published(IndexOf(calls[c].jsonData))
    ELSE ~isBsbDataReady(_parsedBsbData)

\* C26: two calls of fetchAndParseBsbData overlap when the second is started
\* before the first settles; in the step that settles the later of the two to
\* complete, the published index becomes that of the second call if it
\* resolved and absent if it rejected, whichever of the two completes last
C26_LastStartedWins ==
    [][(~BothSettled /\ calls[2].pc # "idle" /\ BothSettled') => PublishedIsOf(2)']_vars

\* ------------------------------------------------------------------ the selection of app.js
\* the arguments of the public filterAndRenderAppReferences and
\* displayAppDetailedPair: a name no category bears, an index before the
\* list, indexes into and past a list of up to two pairs, null, undefined
CategoryNameArgs == {AllCategories, NameBirth, NameMinistry, NameNonexistent}
IndexArgs ==
    {JNum(i) : i \in -1..Len(Get(CatBirth, "pairs").a)} \cup {JNull, JUndefined}

\* initializeApp has run to its end on a manifest and a body of data/BSB.json
InitSelect ==
    \E categories \in Manifests, d \in AppDocs :
        LET r == parseAndIndexBsbData(d) IN
        /\ _parsedBsbData = publishedAfterParse(r)
        /\ _translationName = IF r.threw THEN JStr(ErrorLoading) ELSE translationOf(d)
        /\ calls = [c \in CallIds |->
                      IF c = 1
                      THEN [pc |-> IF r.threw THEN "rejected" ELSE "resolved", jsonData |-> d]
                      ELSE [pc |-> "idle", jsonData |-> JUndefined]]
        /\ query = NoQuery
        /\ _availableCategories = categories
        /\ _currentCategoryFilter = JStr(AllCategories)
        /\ _filteredReferences = <<>>
        /\ _currentSelectionIndex = IF r.threw THEN JNum(0) ELSE JNull
        /\ _currentSelectionRefPair = JNull
        /\ initPc = IF r.threw THEN "failed" ELSE "ready"
        /\ event = NoEvent
        /\ PageInit

\* ProphecyApp.app.filterAndRenderAppReferences(categoryName) called through
\* the public interface
CallFilterAndRenderAppReferences(categoryName) ==
    /\ UNCHANGED <<fetcherVars, _availableCategories, initPc, pageVars>>
    /\ filterAndRenderAppReferences(categoryName, "filterAndRenderAppReferences")

NextSelect ==
    \/ \E categoryName \in CategoryNameArgs : CallFilterAndRenderAppReferences(categoryName)
    \/ \E index \in IndexArgs : CallDisplayAppDetailedPair(index)
    \/ \E kind \in EventKinds : \E target \in CategoryTargets :
          HandleCategorySelection(target, kind)
    \/ \E kind \in EventKinds, target \in IndexTargets :
          HandleReferenceSelection(target, kind)

SpecSelect == InitSelect /\ [][NextSelect]_vars

\* the selection is nothing, or an index into the filtered list with the
\* pair found there
SelectionIsConsistent ==
    \/ _currentSelectionIndex.t = "null" /\ _currentSelectionRefPair.t = "null"
    \/ /\ _currentSelectionIndex.t = "number"
       /\ _currentSelectionIndex.n \in 0..(Len(_filteredReferences) - 1)
       /\ _currentSelectionRefPair.t = "object"
       /\ _currentSelectionRefPair = _filteredReferences[_currentSelectionIndex.n + 1]

\* the pairs of the first category of the manifest that bears the name
PairsOfNamed(name) ==
    LET bears(i) == /\ Get(_availableCategories[i], "name").t = "string"
                    /\ Get(_availableCategories[i], "name").s = name
        bearers == {i \in DOMAIN _availableCategories : bears(i)}
    IN  IF name = AllCategories \/ bearers = {} THEN <<>>
        ELSE LET first == CHOOSE i \in bearers : \A j \in bearers : i <= j
                 pairs == Get(_availableCategories[first], "pairs")
             IN  IF pairs.t = "array" THEN pairs.a ELSE <<>>

ModulesIdle == UNCHANGED <<fetcherVars, _availableCategories, appState, initPc, event>>

\* entries of categories.json; the entry for all categories has no file
CategoryEntry(name, file) == JObj([name |-> JStr(name), file |-> JStr(file)])
CategoryEntryWithoutFile(name) == JObj([name |-> JStr(name)])
FileBirth == <<"b", "i", "r", "t", "h", ".", "j", "s", "o", "n">>
FileMinistry == <<"m", "i", "n", "i", "s", "t", "r", "y", ".", "j", "s", "o", "n">>
NameEmpty == <<"E", "m", "p", "t", "y">>
FileEmpty == <<"e", "m", "p", "t", "y", ".", "j", "s", "o", "n">>
ScriptCategories ==
    <<CategoryEntryWithoutFile(AllCategories), CategoryEntry(NameBirth, FileBirth),
      CategoryEntry(NameMinistry, FileMinistry), CategoryEntry(NameEmpty, FileEmpty)>>
\* bodies of categories.json: null, no categories array, an empty one, a
\* well-formed one
ManifestBodies ==
    {JNull, JObj([version |-> JNum(1)]), JObj([categories |-> JArr(<<>>)]),
     JObj([categories |-> JArr(ScriptCategories)])}

\* the array each category file holds on the server
Served(categoryName) ==
    IF categoryName = NameBirth
    THEN <<Pair(RefPsalms1610, RefJohn316), PairWithoutOt(RefJohn317)>>
    ELSE IF categoryName = NameMinistry THEN <<Pair(RefJohn316, RefJohn317)>>
    ELSE <<>>
\* bodies of a category file: its array, or an object or null served in its
\* place
CategoryBodies(categoryName) ==
    {JArr(Served(categoryName)), JObj([pairs |-> JArr(Served(categoryName))]), JNull}

\* style.display of the three status elements
Status ==
    [loadingIndicator |-> loadingIndicator, errorMessageElement |-> errorMessageElement,
     prophecyContentElement |-> prophecyContentElement]
SetStatus(st) ==
    /\ loadingIndicator' = st.loadingIndicator
    /\ errorMessageElement' = st.errorMessageElement
    /\ prophecyContentElement' = st.prophecyContentElement

\* updateStatusUI(isLoading, error) of script.js on the displays st; error
\* tells whether a message was passed
updateStatusUI(st, isLoading, error) ==
    IF isLoading
    THEN [loadingIndicator |-> "block", errorMessageElement |-> "none",
          prophecyContentElement |-> "none"]
    ELSE IF error
    THEN [loadingIndicator |-> "none", errorMessageElement |-> "block",
          prophecyContentElement |-> "none"]
    ELSE [st EXCEPT !.loadingIndicator = "none", !.errorMessageElement = "none"]

\* displayDetailedPair(pairObject) of script.js: both branches show the panel
displayDetailedPair(st, pairObject) == [st EXCEPT !.prophecyContentElement = "block"]

\* renderProphecyList(data) of script.js: the displays, the list items with a
\* listener and the selection index it leaves
renderProphecyList(st, data, index) ==
    IF data = <<>>
    THEN [status |-> displayDetailedPair(st, JNull), items |-> <<>>, index |-> index]
    ELSE [status |-> displayDetailedPair(st, data[1]),
          items |-> [i \in 1..Len(data) |-> i - 1], index |-> 0]

\* DOMContentLoaded: fetchManifest runs up to await fetch('categories.json')
fetchManifest ==
    /\ manifestPc = "start"
    /\ manifestPc' = "fetch"
    /\ SetStatus(updateStatusUI(Status, TRUE, FALSE))
    /\ UNCHANGED <<availableCategories, currentCategoryData, currentCategoryFilter,
                   loadedProphecies, currentSelectionIndex, prophecyListElement, requests>>

\* the response of categories.json arrives with response.ok
ManifestResponds ==
    /\ manifestPc = "fetch"
    /\ manifestPc' = "json"
    /\ UNCHANGED <<availableCategories, currentCategoryData, currentCategoryFilter,
                   loadedProphecies, currentSelectionIndex, statusVars,
                   prophecyListElement, requests>>

\* the catch block of fetchManifest
ManifestCaught ==
    /\ manifestPc' = "failed"
    /\ SetStatus(updateStatusUI(Status, FALSE, TRUE))
    /\ UNCHANGED <<availableCategories, currentCategoryData, currentCategoryFilter,
                   loadedProphecies, currentSelectionIndex, prophecyListElement, requests>>

\* the fetch rejects, the response is not ok, or the body is not JSON
ManifestRejects ==
    /\ manifestPc \in {"fetch", "json"}
    /\ ManifestCaught

\* response.json() resolves with manifest: validation, processCategories, the
\* empty list and the prompt
ManifestParsed(manifest) ==
    /\ manifestPc = "json"
    /\ LET categories == Get(manifest, "categories")
       IN  IF manifest.t = "null" \/ categories.t # "array" \/ categories.a = <<>>
           THEN ManifestCaught
           ELSE LET st == updateStatusUI(Status, FALSE, FALSE)
                    r == renderProphecyList(st, <<>>, currentSelectionIndex)
                IN  /\ availableCategories' = categories.a
                    /\ manifestPc' = "loaded"
                    /\ SetStatus(displayDetailedPair(r.status, JNull))
                    /\ prophecyListElement' = r.items
                    /\ currentSelectionIndex' = r.index
                    /\ UNCHANGED <<currentCategoryData, currentCategoryFilter,
                                   loadedProphecies, requests>>

\* the catch block of fetchCategoryData in call r
CategoryCaught(r) ==
    LET st == updateStatusUI(Status, FALSE, TRUE)
        rendered == renderProphecyList(st, <<>>, currentSelectionIndex)
    IN  /\ requests' = [requests EXCEPT ![r].pc = "failed"]
        /\ currentCategoryData' = <<>>
        /\ SetStatus(rendered.status)
        /\ prophecyListElement' = rendered.items
        /\ currentSelectionIndex' = rendered.index
        /\ UNCHANGED <<availableCategories, currentCategoryFilter, loadedProphecies,
                       manifestPc>>

\* fetchCategoryData(categoryName, filePath) as call r, up to its await
fetchCategoryData(r, categoryName, filePath) ==
    IF filePath.t = "null"
    THEN LET rendered == renderProphecyList(Status, <<>>, currentSelectionIndex)
         IN  /\ currentCategoryFilter' = AllCategories
             /\ currentCategoryData' = <<>>
             /\ SetStatus(displayDetailedPair(rendered.status, JNull))
             /\ prophecyListElement' = rendered.items
             /\ currentSelectionIndex' = rendered.index
             /\ requests' = [requests EXCEPT ![r] = [pc |-> "done", categoryName |-> categoryName]]
    ELSE /\ SetStatus(updateStatusUI(Status, TRUE, FALSE))
         /\ prophecyListElement' = <<>>
         /\ requests' = [requests EXCEPT ![r] = [pc |-> "fetch", categoryName |-> categoryName]]
         /\ UNCHANGED <<currentCategoryData, currentCategoryFilter, currentSelectionIndex>>

\* handleCategorySelection: a click on the k-th item of the category list
handleCategorySelection(k) ==
    /\ manifestPc = "loaded"
    /\ k \in DOMAIN availableCategories
    /\ \E r \in RequestIds :
          /\ requests[r].pc = "idle"
          /\ \A q \in RequestIds : q < r => requests[q].pc # "idle"
          /\ LET file == Get(availableCategories[k], "file")
                 filePath == IF IsFalsy(file) THEN JNull ELSE file
             IN  fetchCategoryData(r, Get(availableCategories[k], "name").s, filePath)
    /\ UNCHANGED <<availableCategories, loadedProphecies, manifestPc>>

\* the response of the category file of call r arrives with response.ok
CategoryResponds(r) ==
    /\ requests[r].pc = "fetch"
    /\ manifestPc = "loaded"
    /\ requests' = [requests EXCEPT ![r].pc = "json"]
    /\ UNCHANGED <<availableCategories, currentCategoryData, currentCategoryFilter,
                   loadedProphecies, currentSelectionIndex, statusVars,
                   prophecyListElement, manifestPc>>

\* the fetch of call r rejects, the response is not ok, or the body is not JSON
CategoryRejects(r) ==
    /\ requests[r].pc \in {"fetch", "json"}
    /\ manifestPc = "loaded"
    /\ CategoryCaught(r)

\* response.json() of call r resolves with data: validation, then the data
\* is stored and rendered
CategoryParsed(r, data) ==
    /\ requests[r].pc = "json"
    /\ manifestPc = "loaded"
    /\ IF data.t # "array"
       THEN CategoryCaught(r)
       ELSE LET rendered == renderProphecyList(Status, data.a, 0)
            IN  /\ currentCategoryData' = data.a
                /\ currentCategoryFilter' = requests[r].categoryName
                /\ currentSelectionIndex' = rendered.index
                /\ prophecyListElement' = rendered.items
                /\ SetStatus(updateStatusUI(rendered.status, FALSE, FALSE))
                /\ requests' = [requests EXCEPT ![r].pc = "done"]
                /\ UNCHANGED <<availableCategories, loadedProphecies, manifestPc>>

\* handleListSelection of script.js: a click on the list item with
\* dataset.index selectedIndex
handleListSelection(selectedIndex) ==
    /\ selectedIndex \in Range(prophecyListElement)
    /\ IF selectedIndex >= 0 /\ selectedIndex < Len(currentCategoryData)
       THEN /\ currentSelectionIndex' = selectedIndex
            /\ SetStatus(displayDetailedPair(Status, currentCategoryData[selectedIndex + 1]))
       ELSE UNCHANGED <<currentSelectionIndex, statusVars>>
    /\ UNCHANGED <<availableCategories, currentCategoryData, currentCategoryFilter,
                   loadedProphecies, prophecyListElement, manifestPc, requests>>

\* the dataset.index values a list of script.js may carry
MaxItems == 2

NextScript ==
    \/ fetchManifest /\ ModulesIdle
    \/ ManifestResponds /\ ModulesIdle
    \/ ManifestRejects /\ ModulesIdle
    \/ \E manifest \in ManifestBodies : ManifestParsed(manifest) /\ ModulesIdle
    \/ \E k \in 1..Len(ScriptCategories) : handleCategorySelection(k) /\ ModulesIdle
    \/ \E r \in RequestIds : CategoryResponds(r) /\ ModulesIdle
    \/ \E r \in RequestIds : CategoryRejects(r) /\ ModulesIdle
    \/ \E r \in RequestIds : \E data \in CategoryBodies(requests[r].categoryName) :
          CategoryParsed(r, data) /\ ModulesIdle
    \/ \E selectedIndex \in 0..(MaxItems - 1) : handleListSelection(selectedIndex) /\ ModulesIdle

SpecScript == Init /\ [][NextScript]_vars

\* ---- script.js: overlapping category fetches, the status elements
AllSettled == \A r \in RequestIds : requests[r].pc \in {"idle", "done", "failed"}
\* the call made by the most recent selection
IsLatest(r) ==
    /\ requests[r].pc # "idle"
    /\ \A q \in RequestIds : q > r => requests[q].pc = "idle"
Visible(display) == display = "block"

\* C28: once every fetch has settled and the fetch of the most recently
\* selected category went well, currentCategoryFilter is that category and
\* currentCategoryData is the array of its file (the empty array for All
\* Categories), whatever the order in which the responses arrived
C28_LatestSelectionWins ==
    \A r \in RequestIds :
        (AllSettled /\ IsLatest(r) /\ requests[r].pc = "done") =>
            /\ currentCategoryFilter = requests[r].categoryName
            /\ currentCategoryData = Served(requests[r].categoryName)

\* C29: from the start of fetchManifest on, the loading indicator and the
\* error message are never visible together, and the content panel is not
\* visible while either of them is
C29_StatusExcludesContent ==
    manifestPc # "start" =>
        /\ ~(Visible(loadingIndicator) /\ Visible(errorMessageElement))
        /\ (Visible(loadingIndicator) \/ Visible(errorMessageElement))
              => ~Visible(prophecyContentElement)

\* ------------------------------------------------------------------ part_000
\* a step that runs no code of script.js beyond the variables part_000 shares
ScriptIdle ==
    UNCHANGED <<availableCategories, currentCategoryData, currentCategoryFilter, manifestPc>>

\* bodies of prophecies.json: null, an object, an empty array, arrays of one
\* to three pairs
ProphecyBodies ==
    {JNull, JObj([pairs |-> JArr(<<>>)]), JArr(<<>>),
     JArr(<<Pair(RefPsalms1610, RefJohn316)>>),
     JArr(<<Pair(RefPsalms1610, RefJohn316), PairWithoutOt(RefJohn317)>>),
     JArr(<<Pair(RefPsalms1610, RefJohn316), PairWithoutOt(RefJohn317),
            Pair(RefJohn316, RefJohn317)>>)}

\* updateUIState with a last branch that leaves the loading indicator alone
updateUIStateKeepingLoading(st, isLoading, error) ==
    IF isLoading
    THEN [loadingIndicator |-> "block", errorMessageElement |-> "none",
          prophecyContentElement |-> "none"]
    ELSE IF error
    THEN [loadingIndicator |-> "none", errorMessageElement |-> "block",
          prophecyContentElement |-> "none"]
    ELSE [st EXCEPT !.errorMessageElement = "none", !.prophecyContentElement = "block"]

\* updateUIState(isLoading, error) of part_000 on the displays st; error tells
\* whether a message was passed
updateUIState(st, isLoading, error) ==
    IF isLoading
    THEN [loadingIndicator |-> "block", errorMessageElement |-> "none",
          prophecyContentElement |-> "none"]
    ELSE IF error
    THEN [loadingIndicator |-> "none", errorMessageElement |-> "block",
          prophecyContentElement |-> "none"]
    ELSE [loadingIndicator |-> "none", errorMessageElement |-> "none",
          prophecyContentElement |-> "block"]

\* renderProphecyList(data) of part_000: the list items with a listener
renderProphecyListV2(data) ==
    IF data = <<>> THEN <<>> ELSE [i \in 1..Len(data) |-> i - 1]

\* initializeUI() of part_000 on the list just stored: the displays, the
\* list items and the selection index it leaves
initializeUI(st, loaded, index) ==
    IF Len(loaded) > 0
    THEN [status |-> st, items |-> renderProphecyListV2(loaded), index |-> 0]
    ELSE [status |-> updateUIState(st, FALSE, TRUE), items |-> prophecyListElement,
          index |-> index]

\* the state after part_000 has loaded: its last line has run
\* fetchProphecyData up to await fetch('prophecies.json')
InitV2 ==
    /\ _parsedBsbData = JNull
    /\ _translationName = JStr(UnknownName)
    /\ calls = [c \in CallIds |-> [pc |-> "idle", jsonData |-> JUndefined]]
    /\ query = NoQuery
    /\ _availableCategories = <<>>
    /\ _currentCategoryFilter = JStr(AllCategories)
    /\ _filteredReferences = <<>>
    /\ _currentSelectionIndex = JNum(0)
    /\ _currentSelectionRefPair = JNull
    /\ initPc = "start"
    /\ event = NoEvent
    /\ availableCategories = <<>>
    /\ currentCategoryData = <<>>
    /\ currentCategoryFilter = AllCategories
    /\ manifestPc = "start"
    /\ loadedProphecies = <<>>
    /\ currentSelectionIndex = 0
    /\ prophecyListElement = <<>>
    /\ requests = [r \in RequestIds |-> IF r = 1 THEN [NoRequest EXCEPT !.pc = "fetch"] ELSE NoRequest]
    /\ loadingIndicator = "block"
    /\ errorMessageElement = "none"
    /\ prophecyContentElement = "none"

\* fetchProphecyData() as call r, up to its await
fetchProphecyData(r) ==
    /\ requests[r].pc = "idle"
    /\ \A q \in RequestIds : q < r => requests[q].pc # "idle"
    /\ requests' = [requests EXCEPT ![r].pc = "fetch"]
    /\ SetStatus(updateUIState(Status, TRUE, FALSE))
    /\ UNCHANGED <<loadedProphecies, currentSelectionIndex, prophecyListElement>>

\* the response of call r arrives with response.ok
ProphecyResponds(r) ==
    /\ requests[r].pc = "fetch"
    /\ requests' = [requests EXCEPT ![r].pc = "json"]
    /\ UNCHANGED <<loadedProphecies, currentSelectionIndex, statusVars, prophecyListElement>>

\* the catch block of fetchProphecyData in call r
ProphecyCaught(r) ==
    /\ requests' = [requests EXCEPT ![r].pc = "failed"]
    /\ SetStatus(updateUIState(Status, FALSE, TRUE))
    /\ UNCHANGED <<loadedProphecies, currentSelectionIndex, prophecyListElement>>

\* the fetch of call r rejects, the response is not ok, or the body is not JSON
ProphecyRejects(r) ==
    /\ requests[r].pc \in {"fetch", "json"}
    /\ ProphecyCaught(r)

\* response.json() of call r resolves with data: validation, then the data is
\* stored, initializeUI runs and the content is shown
ProphecyParsed(r, data) ==
    /\ requests[r].pc = "json"
    /\ IF data.t # "array" \/ data.a = <<>>
       THEN ProphecyCaught(r)
       ELSE LET ui == initializeUI(Status, data.a, currentSelectionIndex)
            IN  /\ loadedProphecies' = data.a
                /\ currentSelectionIndex' = ui.index
                /\ prophecyListElement' = ui.items
                /\ SetStatus(updateUIState(ui.status, FALSE, FALSE))
                /\ requests' = [requests EXCEPT ![r].pc = "done"]

\* handleListSelection of part_000: a click on the list item with
\* dataset.index selectedIndex
handleListSelectionV2(selectedIndex) ==
    /\ selectedIndex \in Range(prophecyListElement)
    /\ IF selectedIndex >= 0 /\ selectedIndex < Len(loadedProphecies)
       THEN currentSelectionIndex' = selectedIndex
       ELSE UNCHANGED currentSelectionIndex
    /\ UNCHANGED <<loadedProphecies, statusVars, prophecyListElement, requests>>

MaxItemsV2 == 3

NextV2 ==
    \/ \E r \in RequestIds : fetchProphecyData(r) /\ ScriptIdle /\ ModulesIdle
    \/ \E r \in RequestIds : ProphecyResponds(r) /\ ScriptIdle /\ ModulesIdle
    \/ \E r \in RequestIds : ProphecyRejects(r) /\ ScriptIdle /\ ModulesIdle
    \/ \E r \in RequestIds : \E data \in ProphecyBodies :
          ProphecyParsed(r, data) /\ ScriptIdle /\ ModulesIdle
    \/ \E selectedIndex \in 0..(MaxItemsV2 - 1) :
          handleListSelectionV2(selectedIndex) /\ ScriptIdle /\ ModulesIdle

SpecV2 == InitV2 /\ [][NextV2]_vars

\* ---- part_000: the three status elements, the loaded list, the selection
ExactlyOneVisible ==
    Cardinality({e \in {"loading", "error", "content"} :
        Visible(CASE e = "loading" -> loadingIndicator
                  [] e = "error" -> errorMessageElement
                  [] OTHER -> prophecyContentElement)}) = 1
\* a call passes the validation of its body in this step
SomeCallStores ==
    \E r \in RequestIds : requests[r].pc = "json" /\ requests'[r].pc = "done"
\* a click handler ran in this step: no call moved
ListClicked == requests' = requests

====
